---- MODULE Spec2Model ----
(***************************************************************************)
(* Model of the analytics code of the App Store Scraper MCP server         *)
(* (onsissond/mcp-appstore): the sentiment classifier, the monetization    *)
(* classifier, the brand-presence analysis of analyze_top_keywords, the    *)
(* review analysis of analyze_reviews (server.js) and the review           *)
(* aggregators analyzeAndroidReviews / analyzeIOSReviews with their        *)
(* keyword ranker extractReviewKeywords.                                   *)
(*                                                                         *)
(* JavaScript values are modelled by what the engine does with them:       *)
(*   - a Number that results from a division is the exact rational n/d,   *)
(*     with 0/0 = NaN (every comparison with NaN is false);                *)
(*   - an Object used as a table is the sequence of its entries in         *)
(*     enumeration order: canonical integer keys first, in ascending       *)
(*     numeric order, then the other keys in insertion order;              *)
(*   - Array.prototype.sort is stable and sorts the array in place;        *)
(*   - a text is the sequence of its \w+ runs.                             *)
(***************************************************************************)
EXTENDS Integers, Sequences, FiniteSets, TLC

VARIABLES
  text,            \* analyzeSentiment: the text under classification
  sentiment,       \* analyzeSentiment: the label returned ("none" before the call)
  pricingDetails,  \* get_pricing_details: the pricing record handed to determineMonetizationModel
  results,         \* analyze_top_keywords: the list of apps upstream returned
  keywordReport,   \* analyze_top_keywords: the report (phase "idle" before the call)
  reviews,         \* the review batch (the array object shared by caller and aggregator)
  received,        \* the reviews in the order upstream delivered them
  platform,        \* platform of the batch: "android" or "ios"
  reports,         \* reports built by analyzeAndroidReviews / analyzeIOSReviews, oldest first
  analysis,        \* report of analyze_reviews of server.js (phase "idle" before the call)
  volumeReport,    \* analyze_top_keywords of part_000: the install-volume report (phase "idle" before the call)
  request,         \* the tool call being served (tool "none" before the call)
  stage,           \* position of the handler: the upstream fetch it awaits (0 when it awaits none)
  fetches,         \* the upstream fetches the handler issued, with their outcomes, oldest first
  response,        \* what the handler resolved with (kind "none" while it runs)
  calls,           \* the tool requests of the process, in flight or answered, oldest first
  heap,            \* the objects the fetchers resolved or will resolve their promises with
  cache            \* the memoized fetchers: pairs of a fetch key and the object cached for it

vars == <<text, sentiment, pricingDetails, results, keywordReport,
          reviews, received, platform, reports, analysis,
          volumeReport, request, stage, fetches, response,
          calls, heap, cache>>

(***************************************************************************)
(* Bounds of the model                                                     *)
(***************************************************************************)
MaxTextLen == 4

(***************************************************************************)
(* JavaScript Numbers                                                      *)
(***************************************************************************)
\* a / b for two non-negative integers; 0 / 0 is NaN, a / 0 with a > 0 is Infinity
Quot(a, b) == [n |-> a, d |-> b]

IsNaN(x) == x.n = 0 /\ x.d = 0

\* x > y, false as soon as one side is NaN
GT(x, y) == ~IsNaN(x) /\ ~IsNaN(y) /\ x.n * y.d > y.n * x.d

\* x < y
LT(x, y) == GT(y, x)

\* x <= y (not the negation of x > y: false on NaN)
LE(x, y) == ~IsNaN(x) /\ ~IsNaN(y) /\ x.n * y.d <= y.n * x.d

\* the two Numbers are the same finite value
NumEq(x, y) == ~IsNaN(x) /\ ~IsNaN(y) /\ x.d # 0 /\ y.d # 0 /\ x.n * y.d = y.n * x.d

\* a falsy/truthy test of a tri-state flag ("true", "false", "undefined")
Truthy(v) == v = "true"

(***************************************************************************)
(* Sentiment classifier: analyzeSentiment (server.js)                      *)
(***************************************************************************)
positiveWords ==
  {"good", "great", "excellent", "awesome", "amazing", "love", "best",
   "perfect", "fantastic", "wonderful", "happy", "easy", "helpful",
   "recommend", "recommended", "nice", "beautiful", "fun", "enjoy",
   "worth", "favorite", "improvement", "improved", "better", "useful"}

negativeWords ==
  {"bad", "terrible", "awful", "horrible", "poor", "worst", "waste",
   "useless", "difficult", "hate", "crash", "bug", "problem", "issue",
   "disappointing", "disappointed", "fix", "error", "fail", "fails",
   "wrong", "frustrating", "slow", "expensive", "annoying", "boring"}

\* String.prototype.toLowerCase on the words of the model's vocabulary
toLowerCase(w) ==
  CASE w = "Great" -> "great"
    [] w = "SLOW"  -> "slow"
    [] OTHER       -> w

\* words.forEach(word => { if (positiveWords.includes(word)) positiveCount++ ... })
RECURSIVE CountIn(_, _)
CountIn(words, lexicon) ==
  IF words = << >> THEN 0
  ELSE (IF toLowerCase(Head(words)) \in lexicon THEN 1 ELSE 0) + CountIn(Tail(words), lexicon)

analyzeSentimentMutNoStrong(t) ==
  LET positiveCount == CountIn(t, positiveWords)
      negativeCount == CountIn(t, negativeWords)
  IN  IF t = << >> THEN "neutral"
      ELSE IF positiveCount > negativeCount THEN "somewhat positive"
      ELSE IF negativeCount > positiveCount THEN "somewhat negative"
      ELSE "neutral"

analyzeSentimentMutGE(t) ==
  LET positiveCount == CountIn(t, positiveWords)
      negativeCount == CountIn(t, negativeWords)
  IN  IF t = << >> THEN "neutral"
      ELSE IF positiveCount >= negativeCount * 2 THEN "positive"
      ELSE IF negativeCount > positiveCount * 2 THEN "negative"
      ELSE IF positiveCount > negativeCount THEN "somewhat positive"
      ELSE IF negativeCount > positiveCount THEN "somewhat negative"
      ELSE "neutral"

analyzeSentiment(t) ==
  LET positiveCount == CountIn(t, positiveWords)
      negativeCount == CountIn(t, negativeWords)
  IN  IF t = << >> THEN "neutral"
      ELSE IF positiveCount > negativeCount * 2 THEN "positive"
      ELSE IF negativeCount > positiveCount * 2 THEN "negative"
      ELSE IF positiveCount > negativeCount THEN "somewhat positive"
      ELSE IF negativeCount > positiveCount THEN "somewhat negative"
      ELSE "neutral"

\* the words a text of the sentiment specification is made of
SentimentVocabulary == {"good", "Great", "bad", "SLOW", "the"}

SentimentTexts == UNION {[1..k -> SentimentVocabulary] : k \in 0..MaxTextLen}

(***************************************************************************)
(* Pricing/monetization classifier: determineMonetizationModel (server.js) *)
(***************************************************************************)
determineMonetizationModelMutIapFirst(pd) ==
  IF ~pd.basePrice.isFree
    THEN (IF pd.inAppPurchases.offers THEN "Paid app with in-app purchases"
                                      ELSE "Paid app (premium)")
  ELSE IF pd.inAppPurchases.offers
    THEN (IF Truthy(pd.adSupported) THEN "Freemium with ads and in-app purchases"
                                    ELSE "Freemium with in-app purchases")
  ELSE IF pd.subscriptions.offers
    THEN (IF Truthy(pd.adSupported) THEN "Freemium with ads and subscriptions"
                                    ELSE "Freemium with subscriptions")
  ELSE IF Truthy(pd.adSupported) THEN "Free with ads"
  ELSE "Completely free"

determineMonetizationModel(pd) ==
  IF ~pd.basePrice.isFree
    THEN (IF pd.inAppPurchases.offers THEN "Paid app with in-app purchases"
                                      ELSE "Paid app (premium)")
  ELSE IF pd.subscriptions.offers
    THEN (IF Truthy(pd.adSupported) THEN "Freemium with ads and subscriptions"
                                    ELSE "Freemium with subscriptions")
  ELSE IF pd.inAppPurchases.offers
    THEN (IF Truthy(pd.adSupported) THEN "Freemium with ads and in-app purchases"
                                    ELSE "Freemium with in-app purchases")
  ELSE IF Truthy(pd.adSupported) THEN "Free with ads"
  ELSE "Completely free"

\* the pricing records get_pricing_details can hand to the classifier
PricingRecords ==
  [platform : {"android", "ios"},
   basePrice : [amount : {0, 99, 199}, isFree : BOOLEAN],
   inAppPurchases : [offers : BOOLEAN],
   subscriptions : [offers : BOOLEAN],
   adSupported : {"true", "false", "undefined"},
   monetizationModel : {"undefined"}]

(***************************************************************************)
(* JavaScript Objects used as tables, and Array.prototype.sort             *)
(***************************************************************************)
\* the canonical numeric strings among the words of the model, with their value
NumericValue == ("100" :> 100) @@ ("2024" :> 2024)

\* the key is an integer index key: such keys are enumerated first, ascending
IsArrayIndex(k) == k \in DOMAIN NumericValue

ObjHas(o, k) == \E i \in DOMAIN o : o[i][1] = k

\* o[k] || 0
ObjGetOr0(o, k) == IF ObjHas(o, k) THEN o[CHOOSE i \in DOMAIN o : o[i][1] = k][2] ELSE 0

\* o[k] = v: an existing key keeps its place, a new index key goes to its numeric
\* place among the index keys, any other new key goes last
ObjSet(o, k, v) ==
  IF ObjHas(o, k)
    THEN [i \in DOMAIN o |-> IF o[i][1] = k THEN <<k, v>> ELSE o[i]]
  ELSE IF IsArrayIndex(k)
    THEN LET p == Cardinality({i \in DOMAIN o :
                      IsArrayIndex(o[i][1]) /\ NumericValue[o[i][1]] < NumericValue[k]})
         IN  SubSeq(o, 1, p) \o << <<k, v>> >> \o SubSeq(o, p + 1, Len(o))
  ELSE Append(o, <<k, v>>)

\* entries.reduce((obj, [key, value]) => { obj[key] = value; return obj }, target),
\* also the object spread { ...target, ...entries }
RECURSIVE AssignAll(_, _)
AssignAll(target, entries) ==
  IF entries = << >> THEN target
  ELSE AssignAll(ObjSet(target, Head(entries)[1], Head(entries)[2]), Tail(entries))

\* the array whose elements are those of the sequence s
Array(s) == SubSeq(s, 1, Len(s))

\* counts = {}; items.forEach(k => { counts[k] = (counts[k] || 0) + 1 }): every
\* distinct item with its number of occurrences, the index keys first in
\* numeric order, then the other keys in the order of their first occurrence
CountAll(items) ==
  LET firsts == SelectSeq(Array([i \in DOMAIN items |-> i]),
                          LAMBDA i : \A j \in 1..(i - 1) : items[j] # items[i])
      others == SelectSeq(firsts, LAMBDA i : ~IsArrayIndex(items[i]))
      indexKeys == {items[i] : i \in DOMAIN items} \cap DOMAIN NumericValue
      Place(k) == Cardinality({a \in indexKeys : NumericValue[a] < NumericValue[k]}) + 1
      Occurrences(k) == Cardinality({i \in DOMAIN items : items[i] = k})
  IN  Array([p \in 1..Cardinality(indexKeys) |->
               LET k == CHOOSE a \in indexKeys : Place(a) = p IN <<k, Occurrences(k)>>])
      \o Array([j \in DOMAIN others |-> <<items[others[j]], Occurrences(items[others[j]])>>])

\* s.sort((a, b) => key(b) - key(a)): descending by key, equal keys keep their order
StableSortDesc(s, key) ==
  LET Rank(i) == Cardinality({j \in DOMAIN s : key[j] > key[i] \/ (key[j] = key[i] /\ j < i)}) + 1
      rank == Array([i \in DOMAIN s |-> Rank(i)])
  IN  Array([p \in DOMAIN s |-> s[CHOOSE i \in DOMAIN s : rank[i] = p]])

\* Object.entries(o).sort((a, b) => b[1] - a[1])
SortEntries(o) == StableSortDesc(o, Array([i \in DOMAIN o |-> o[i][2]]))

\* array.slice(0, n)
Slice0(s, n) == SubSeq(s, 1, IF n < Len(s) THEN n ELSE Len(s))

\* Object.entries(o).sort(...).slice(0, n).reduce(..., {})
TopEntries(o, n) == AssignAll(<< >>, Slice0(SortEntries(o), n))

RECURSIVE Flatten(_)
Flatten(ss) == IF ss = << >> THEN << >> ELSE Head(ss) \o Flatten(Tail(ss))

(***************************************************************************)
(* Keyword/bigram frequency ranker: extractReviewKeywords                  *)
(***************************************************************************)
reviewStopWords ==
  {"a", "an", "the", "and", "but", "or", "for", "nor", "on", "at", "to", "by",
   "i", "me", "my", "mine", "you", "your", "yours", "he", "him", "his", "she",
   "her", "hers", "it", "its", "we", "us", "our", "ours", "they", "them", "their",
   "theirs", "this", "that", "these", "those", "is", "are", "was", "were", "be",
   "been", "being", "have", "has", "had", "do", "does", "did", "will", "would",
   "shall", "should", "can", "could", "may", "might", "must", "of", "in", "out",
   "about", "up", "down", "off", "over", "under", "again", "further", "then",
   "once", "here", "there", "when", "where", "why", "how", "all", "any", "both",
   "each", "few", "more", "most", "other", "some", "such", "no", "not",
   "only", "own", "same", "so", "than", "too", "very", "s", "t", "just", "don",
   "now", "app", "get", "use", "make", "with", "from", "really", "good", "bad",
   "great", "awesome", "terrible", "like", "love", "hate", "best", "worst",
   "nice", "amazing"}

\* word.length > 2 && !stopWords.includes(word)
ReviewWordKept(w) == Len(w) > 2 /\ w \notin reviewStopWords

\* the bigrams pushed by the loop over i = 0 .. words.length - 2
Bigrams(words) ==
  LET starts == SelectSeq(Array([i \in 1..(Len(words) - 1) |-> i]),
                          LAMBDA i : ReviewWordKept(words[i]) /\ ReviewWordKept(words[i + 1]))
  IN  Array([j \in DOMAIN starts |-> words[starts[j]] \o " " \o words[starts[j] + 1]])

KeywordTopN == 30

extractReviewKeywords(reviewTexts) ==
  LET joined == Flatten(reviewTexts)
      words == Array([i \in DOMAIN joined |-> toLowerCase(joined[i])])
      wordCounts == CountAll(SelectSeq(words, ReviewWordKept))
      bigramCounts == CountAll(Bigrams(words))
      combinedCounts == AssignAll(wordCounts, bigramCounts)
  IN  TopEntries(combinedCounts, KeywordTopN)

(***************************************************************************)
(* Review batches                                                          *)
(***************************************************************************)
\* the value of a field the upstream record does not carry (thumbsUp)
undefined == -1

\* no review
null == [id |-> 0, score |-> 0, thumbsUp |-> undefined, text |-> << >>, version |-> ""]

LongText ==
  <<"battery", "drain", "since", "update", "login", "screen", "freezes", "every",
    "time", "open", "camera", "photos", "upload", "fails", "network", "sync",
    "error", "message", "support", "answers", "easy">>

\* the reviews upstream can deliver: score (a Number, held in tenths of a star:
\* 46 is the score 4.6), helpfulness, text (its \w+ runs) and version; an empty
\* text and an empty version stand for a missing field
ReviewKinds ==
  << [score |-> 50, thumbsUp |-> 0,         text |-> <<"Great", "clean", "design">>,      version |-> "1.0"],
     [score |-> 10, thumbsUp |-> 3,         text |-> <<"crash", "crash", "100">>,         version |-> "2.0"],
     [score |-> 30, thumbsUp |-> undefined, text |-> << >>,                               version |-> ""],
     [score |-> 40, thumbsUp |-> 3,         text |-> <<"2024", "design", "is", "SLOW">>,  version |-> "1.0"],
     [score |-> 20, thumbsUp |-> 1,         text |-> LongText,                            version |-> "2.0"],
     [score |-> 46, thumbsUp |-> 3,         text |-> <<"bug", "price", "easy", "nice">>,  version |-> ""] >>

\* longest batch of freely chosen reviews
MaxBatch == 3

\* largest number of older reviews behind a full window of recent reviews
MaxTail == 2

\* number of reviews of the "recent" window
RecentWindow == 20

\* the kind of review that carries the long text, and the other kinds
LongKind == CHOOSE k \in DOMAIN ReviewKinds : ReviewKinds[k].text = LongText

ShortKinds == DOMAIN ReviewKinds \ {LongKind}

\* the batch made of the given kinds, ids numbering the reviews in upstream order
MkBatch(ks) ==
  [i \in DOMAIN ks |->
     [id |-> i, score |-> ReviewKinds[ks[i]].score, thumbsUp |-> ReviewKinds[ks[i]].thumbsUp,
      text |-> ReviewKinds[ks[i]].text, version |-> ReviewKinds[ks[i]].version]]

\* the sequences of lo to hi kinds of short review
KindSeqs(lo, hi) == UNION {[1..k -> ShortKinds] : k \in lo..hi}

\* the kinds of review a full window of recent reviews is made of
WindowKinds == {1, 3}

\* short batches of short reviews, the long review followed by a shorter batch
\* of them, and batches of a full window of one kind of review followed by a
\* few older reviews of one kind
Batches ==
  {MkBatch(ks) : ks \in KindSeqs(0, MaxBatch)}
  \cup {MkBatch(<<LongKind>> \o ks) : ks \in KindSeqs(0, MaxBatch - 1)}
  \cup {MkBatch([i \in 1..(RecentWindow + n) |-> IF i <= RecentWindow THEN k ELSE t]) :
          k \in WindowKinds, t \in DOMAIN ReviewKinds, n \in 1..MaxTail}

(***************************************************************************)
(* Review aggregators: analyzeAndroidReviews / analyzeIOSReviews           *)
(***************************************************************************)
RECURSIVE Sum(_)
Sum(s) == IF s = << >> THEN 0 ELSE Head(s) + Sum(Tail(s))

Scores(rs) == Array([i \in DOMAIN rs |-> rs[i].score])

\* review.thumbsUp || 0
ThumbsOr0(r) == IF r.thumbsUp = undefined THEN 0 ELSE r.thumbsUp

\* reviews.filter(pred).length for the three score classes (r.score >= 4,
\* r.score === 3, r.score <= 2), the bounds given in stars
CountScore(rs, lo, hi) ==
  Cardinality({i \in DOMAIN rs : rs[i].score >= 10 * lo /\ rs[i].score <= 10 * hi})

\* Math.round(score): the nearest integer, a half rounded up
MathRound(score) == (score + 5) \div 10

\* Math.floor(score)
MathFloor(score) == score \div 10

\* the key ratingCount[review.score] of analyzeIOSReviews addresses, in tenths:
\* the score itself
ScoreKey(score) == score

\* the key ratingCount[Math.round(review.score)] of analyzeAndroidReviews addresses
RoundedKey(score) == 10 * MathRound(score)

\* the key of ratingCount a review is counted under on platform p
RatingKey(p, score) == IF p = "android" THEN RoundedKey(score) ELSE ScoreKey(score)

\* ratingCount after the forEach, for the keys 1..5 it starts with: the number
\* of reviews whose key is that bucket
RatingCount(rs, p) ==
  [s \in 1..5 |-> Cardinality({i \in DOMAIN rs : RatingKey(p, rs[i].score) = 10 * s})]

\* the keys the forEach added to ratingCount (in tenths), each with its count
RatingCountAdded(rs, p) ==
  [k \in {RatingKey(p, rs[i].score) : i \in DOMAIN rs} \ {10, 20, 30, 40, 50} |->
     Cardinality({i \in DOMAIN rs : RatingKey(p, rs[i].score) = k})]

\* o[k] of a key the object has
ObjGet(o, k) == o[CHOOSE i \in DOMAIN o : o[i][1] = k][2]

\* Object.keys(versionKeywords).forEach(k => { keywords[k] = (keywords[k] || 0) + versionKeywords[k] })
RECURSIVE AddCounts(_, _)
AddCounts(keywords, versionKeywords) ==
  IF versionKeywords = << >> THEN keywords
  ELSE AddCounts(ObjSet(keywords, Head(versionKeywords)[1],
                        ObjGetOr0(keywords, Head(versionKeywords)[1]) + Head(versionKeywords)[2]),
                 Tail(versionKeywords))

\* the first forEach of the version-specific feedback
RECURSIVE CollectVersions(_, _)
CollectVersions(rs, vf) ==
  IF rs = << >> THEN vf
  ELSE LET r == Head(rs)
           old == IF ObjHas(vf, r.version) THEN ObjGet(vf, r.version)
                  ELSE [count |-> 0, averageScore |-> Quot(0, 1), totalScore |-> 0, keywords |-> << >>]
           new == [old EXCEPT !.count = @ + 1,
                              !.totalScore = @ + r.score,
                              !.keywords = IF r.text # << >>
                                             THEN AddCounts(@, extractReviewKeywords(<<r.text>>))
                                             ELSE @]
       IN  IF r.version # "" THEN CollectVersions(Tail(rs), ObjSet(vf, r.version, new))
           ELSE CollectVersions(Tail(rs), vf)

VersionTopN == 10

\* the second forEach: the average score and the sorted keywords of each version
VersionFeedback(rs) ==
  LET vf == CollectVersions(rs, << >>)
  IN  Array([i \in DOMAIN vf |->
         <<vf[i][1], [vf[i][2] EXCEPT !.averageScore = Quot(vf[i][2].totalScore, 10 * vf[i][2].count),
                                      !.keywords = TopEntries(@, VersionTopN)]>>])

\* reviews.sort((a, b) => (b.thumbsUp || 0) - (a.thumbsUp || 0))
SortByThumbsUp(rs) == StableSortDesc(rs, Array([i \in DOMAIN rs |-> ThumbsOr0(rs[i])]))

\* array[0] || null
FirstOrNull(rs) == IF rs = << >> THEN null ELSE rs[1]

RecentSentiment(rs) ==
  LET recentReviews == Slice0(rs, IF RecentWindow < Len(rs) THEN RecentWindow ELSE Len(rs))
  IN  [positive |-> CountScore(recentReviews, 4, 5),
       neutral |-> CountScore(recentReviews, 3, 3),
       negative |-> CountScore(recentReviews, 1, 2),
       averageScore |-> Quot(Sum(Scores(recentReviews)), 10 * Len(recentReviews))]

OverallTrend(recentAverage, overallAverage) ==
  IF GT(recentAverage, overallAverage) THEN "Improving"
  ELSE IF LT(recentAverage, overallAverage) THEN "Declining"
  ELSE "Stable"

\* reviews.map(r => r.text).filter(Boolean)
ReviewTexts(rs) == SelectSeq(Array([i \in DOMAIN rs |-> rs[i].text]), LAMBDA t : t # << >>)

OverallSentiment(rs) == IF CountScore(rs, 4, 5) > CountScore(rs, 1, 2) THEN "Positive" ELSE "Negative"

\* the report analyzeAndroidReviews returns and the batch as the call leaves it:
\* the sort of the engagement metrics reorders the caller's array, and every
\* statement after it reads the reordered array
analyzeAndroidReviews(rs) ==
  LET totalScore == Sum(Scores(rs))
      keywords == extractReviewKeywords(ReviewTexts(rs))
      versionFeedback == VersionFeedback(rs)
      sorted == SortByThumbsUp(rs)
      recentSentiment == RecentSentiment(sorted)
  IN  [reviews |-> sorted,
       report |->
         [platform |-> "android",
          reviewCount |-> Len(rs),
          sampleAverageScore |-> Quot(totalScore, 10 * Len(sorted)),
          overallSentiment |-> OverallSentiment(rs),
          ratingsDistribution |-> RatingCount(rs, "android"),
          ratingsAdded |-> RatingCountAdded(rs, "android"),
          sentimentAnalysis |-> [positive |-> CountScore(rs, 4, 5),
                                 neutral |-> CountScore(rs, 3, 3),
                                 negative |-> CountScore(rs, 1, 2)],
          recentSentiment |-> recentSentiment,
          trend |-> OverallTrend(recentSentiment.averageScore, Quot(totalScore, 10 * Len(sorted))),
          commonKeywords |-> keywords,
          versionFeedback |-> versionFeedback,
          engagement |-> [totalThumbsUp |-> Sum([i \in DOMAIN rs |-> ThumbsOr0(rs[i])]),
                          averageThumbsUp |-> Quot(Sum([i \in DOMAIN rs |-> ThumbsOr0(rs[i])]), Len(rs)),
                          mostHelpfulReview |-> FirstOrNull(sorted)],
          topPositiveReview |->
            FirstOrNull(SortByThumbsUp(SelectSeq(sorted, LAMBDA r : r.score >= 40))),
          topNegativeReview |->
            FirstOrNull(SortByThumbsUp(SelectSeq(sorted, LAMBDA r : r.score <= 20)))]]

\* the report analyzeIOSReviews returns; the batch is only read
analyzeIOSReviews(rs) ==
  LET totalScore == Sum(Scores(rs))
      keywords == extractReviewKeywords(ReviewTexts(rs))
      versionFeedback == VersionFeedback(rs)
      recentSentiment == RecentSentiment(rs)
  IN  [reviews |-> rs,
       report |->
         [platform |-> "ios",
          reviewCount |-> Len(rs),
          sampleAverageScore |-> Quot(totalScore, 10 * Len(rs)),
          overallSentiment |-> OverallSentiment(rs),
          ratingsDistribution |-> RatingCount(rs, "ios"),
          ratingsAdded |-> RatingCountAdded(rs, "ios"),
          sentimentAnalysis |-> [positive |-> CountScore(rs, 4, 5),
                                 neutral |-> CountScore(rs, 3, 3),
                                 negative |-> CountScore(rs, 1, 2)],
          recentSentiment |-> recentSentiment,
          trend |-> OverallTrend(recentSentiment.averageScore, Quot(totalScore, 10 * Len(rs))),
          commonKeywords |-> keywords,
          versionFeedback |-> versionFeedback,
          topPositiveReview |-> FirstOrNull(SelectSeq(rs, LAMBDA r : r.score >= 40)),
          topNegativeReview |-> FirstOrNull(SelectSeq(rs, LAMBDA r : r.score <= 20))]]

(***************************************************************************)
(* Review analysis of analyze_reviews (server.js)                          *)
(***************************************************************************)
serverStopWords ==
  {"i", "me", "my", "myself", "we", "our", "ours", "ourselves",
   "you", "your", "yours", "yourself", "yourselves", "he", "him",
   "his", "himself", "she", "her", "hers", "herself", "it", "its",
   "itself", "they", "them", "their", "theirs", "themselves",
   "what", "which", "who", "whom", "this", "that", "these", "those",
   "am", "is", "are", "was", "were", "be", "been", "being", "have",
   "has", "had", "having", "do", "does", "did", "doing", "a", "an",
   "the", "and", "but", "if", "or", "because", "as", "until", "while",
   "of", "at", "by", "for", "with", "about", "against", "between",
   "into", "through", "during", "before", "after", "above", "below",
   "to", "from", "up", "down", "in", "out", "on", "off", "over",
   "under", "again", "further", "then", "once", "here", "there",
   "when", "where", "why", "how", "all", "any", "both", "each",
   "few", "more", "most", "other", "some", "such", "no", "nor",
   "not", "only", "own", "same", "so", "than", "too", "very",
   "s", "t", "can", "will", "just", "don", "should", "now", "app"}

\* words.filter(word => !stopWords.includes(word) && word.length > 3)
extractKeywords(t) ==
  SelectSeq(Array([i \in DOMAIN t |-> toLowerCase(t[i])]),
            LAMBDA w : w \notin serverStopWords /\ Len(w) > 3)

SentimentLabels == <<"positive", "somewhat positive", "neutral", "somewhat negative", "negative">>

\* parseFloat(x.toFixed(2)): x rounded to hundredths, a tie rounded up (the ties
\* of the quotients of the model, with a denominator below 40, are exact in
\* binary); NaN stays NaN
ToFixed2(x) ==
  IF x.d = 0 THEN x ELSE Quot((2 * 100 * x.n + x.d) \div (2 * x.d), 100)

PercentageMutNoGuard(count, total) == ToFixed2(Quot(count * 100, total))

PercentageMutTruncate(count, total) ==
  IF total # 0 THEN Quot((count * 100 * 100) \div total, 100) ELSE Quot(0, 100)

\* totalReviews ? (count / totalReviews) * 100 : 0, then parseFloat(toFixed(2))
Percentage(count, total) ==
  ToFixed2(IF total # 0 THEN Quot(count * 100, total) ELSE Quot(0, 1))

ServerTopN == 20

bugKeywords == <<"bug", "crash", "freezes", "frozen", "stuck", "error">>

pricingKeywords == <<"price", "cost", "expensive", "cheap", "free", "subscription", "payment">>

uxKeywords == <<"interface", "design", "layout", "ugly", "beautiful", "easy", "difficult", "confusing">>

\* kw.includes(word) on the keywords the texts of the model yield: a keyword
\* includes itself, and "freezes" includes "free"
includes(kw, word) == kw = word \/ (kw = "freezes" /\ word = "free")

\* themeKeywords.some(word => Object.keys(keywordFrequency).some(kw => kw.includes(word)))
HasTheme(themeKeywords, keywordFrequency) ==
  \E w \in DOMAIN themeKeywords : \E k \in DOMAIN keywordFrequency :
    includes(keywordFrequency[k][1], themeKeywords[w])

CommonThemesMutExactMatch(keywordFrequency) ==
  LET Has(themeKeywords) ==
        \E w \in DOMAIN themeKeywords : \E k \in DOMAIN keywordFrequency :
          keywordFrequency[k][1] = themeKeywords[w]
  IN  (IF Has(bugKeywords) THEN <<"Stability Issues">> ELSE << >>)
      \o (IF Has(pricingKeywords) THEN <<"Pricing Concerns">> ELSE << >>)
      \o (IF Has(uxKeywords) THEN <<"User Experience">> ELSE << >>)

\* the themes pushed onto commonThemes, in the order of the three checks
CommonThemes(keywordFrequency) ==
  (IF HasTheme(bugKeywords, keywordFrequency) THEN <<"Stability Issues">> ELSE << >>)
  \o (IF HasTheme(pricingKeywords, keywordFrequency) THEN <<"Pricing Concerns">> ELSE << >>)
  \o (IF HasTheme(uxKeywords, keywordFrequency) THEN <<"User Experience">> ELSE << >>)

\* ratingDistribution[s] after the forEach: the reviews whose Math.floor(score)
\* is s; a score is counted only if its floor is in 1..5
RatingBucket(rs, s) ==
  Cardinality({i \in DOMAIN rs : MathFloor(rs[i].score) = s /\ s >= 1 /\ s <= 5})

\* the analysis object of the response of analyze_reviews
AnalyzeReviews(rs) ==
  LET processedReviews ==
        Array([i \in DOMAIN rs |-> [id |-> rs[i].id, score |-> rs[i].score,
                                    sentiment |-> analyzeSentiment(rs[i].text),
                                    keywords |-> extractKeywords(rs[i].text)]])
      sentimentCounts ==
        [l \in {SentimentLabels[j] : j \in DOMAIN SentimentLabels} |->
           Cardinality({i \in DOMAIN rs : processedReviews[i].sentiment = l})]
      totalReviews == Len(processedReviews)
      keywordFrequency ==
        CountAll(Flatten(Array([i \in DOMAIN rs |-> processedReviews[i].keywords])))
  IN  [phase |-> "done",
       totalReviewsAnalyzed |-> totalReviews,
       sentimentCounts |-> sentimentCounts,
       sentimentBreakdown |->
         [l \in DOMAIN sentimentCounts |-> Percentage(sentimentCounts[l], totalReviews)],
       keywords |-> Array([i \in DOMAIN rs |-> processedReviews[i].keywords]),
       keywordFrequency |-> TopEntries(keywordFrequency, ServerTopN),
       allKeywords |-> keywordFrequency,
       commonThemes |-> CommonThemes(keywordFrequency),
       ratingDistribution |-> [s \in 1..5 |-> RatingBucket(rs, s)]]

AnalysisIdle ==
  [phase |-> "idle", totalReviewsAnalyzed |-> 0,
   sentimentCounts |-> [l \in {SentimentLabels[j] : j \in DOMAIN SentimentLabels} |-> 0],
   sentimentBreakdown |-> [l \in {SentimentLabels[j] : j \in DOMAIN SentimentLabels} |-> Quot(0, 1)],
   keywords |-> << >>, keywordFrequency |-> << >>, allKeywords |-> << >>,
   commonThemes |-> << >>,
   ratingDistribution |-> [s \in 1..5 |-> 0]]

(***************************************************************************)
(* Brand presence of analyze_top_keywords (server.js)                      *)
(***************************************************************************)
Developers == <<"Acme", "Bolt", "Cyan", "Dune", "Echo">>

\* an app of the search result, as normalizedApps keeps it
App(dev) ==
  [developer |-> dev,
   score |-> IF dev = "Acme" THEN 5 ELSE IF dev = "Bolt" THEN 0 ELSE 4,
   free |-> dev # "Cyan",
   category |-> IF dev = "Dune" THEN "" ELSE "Tools"]

\* longest search result of freely ordered apps
MaxApps == 4

\* largest search result of the results listed developer by developer
MaxBlockApps == 10

\* largest search result of the results shared out between a leading pair of
\* developers and the three others
MaxLargeApps == 27

RECURSIVE Blocks(_, _)
Blocks(counts, j) ==
  IF j > Len(Developers) THEN << >>
  ELSE [i \in 1..counts[j] |-> App(Developers[j])] \o Blocks(counts, j + 1)

\* the counts of a result of n apps of which top belong to the first two
\* developers, each side shared out as evenly as possible
SharedOut(n, top) ==
  LET rest == n - top
  IN  << (top + 1) \div 2, top \div 2, (rest + 2) \div 3, (rest + 1) \div 3, rest \div 3 >>

\* the search results of the model: short lists in any order, longer lists
\* that hold the apps of each developer next to each other, and large lists
\* shared out between a leading pair of developers and the others
AppLists ==
  {[i \in DOMAIN ds |-> App(Developers[ds[i]])] :
      ds \in UNION {[1..k -> 1..3] : k \in 0..MaxApps}}
  \cup {Blocks(c, 1) : c \in {c \in [DOMAIN Developers -> 0..MaxBlockApps] :
                               c[1] + c[2] + c[3] + c[4] + c[5] \in (MaxApps + 1)..MaxBlockApps}}
  \cup UNION {{Blocks(SharedOut(n, top), 1) : top \in 0..n} :
                n \in (MaxBlockApps + 1)..MaxLargeApps}

CompetitionLevelMutRounded(brandDominance) ==
  IF GT(ToFixed2(brandDominance), Quot(7, 10)) THEN "Low - dominated by major brands"
  ELSE IF GT(ToFixed2(brandDominance), Quot(4, 10))
    THEN "Medium - mix of major brands and independents"
  ELSE "High - diverse set of developers"

CompetitionLevel(brandDominance) ==
  IF GT(brandDominance, Quot(7, 10)) THEN "Low - dominated by major brands"
  ELSE IF GT(brandDominance, Quot(4, 10)) THEN "Medium - mix of major brands and independents"
  ELSE "High - diverse set of developers"

\* the brandPresence and metrics parts of the response of analyze_top_keywords
AnalyzeTopKeywords(normalizedApps) ==
  LET developerCounts == CountAll([i \in DOMAIN normalizedApps |-> normalizedApps[i].developer])
      sortedEntries == SortEntries(developerCounts)
      sortedDevelopers == Array([i \in DOMAIN sortedEntries |-> sortedEntries[i][1]])
      totalApps == Len(normalizedApps)
      paidApps == SelectSeq(normalizedApps, LAMBDA a : ~a.free)
      topBrands == Slice0(sortedDevelopers, 2)
      topBrandAppsCount == Sum([i \in DOMAIN topBrands |-> ObjGet(developerCounts, topBrands[i])])
      brandDominance == Quot(topBrandAppsCount, totalApps)
  IN  [phase |-> "done",
       developerCounts |-> developerCounts,
       brandDominance |-> brandDominance,
       brandPresence |-> [topBrands |-> topBrands,
                          brandDominance |-> ToFixed2(brandDominance),
                          competitionLevel |-> CompetitionLevel(brandDominance)],
       totalApps |-> totalApps,
       averageRating |-> ToFixed2(Quot(Sum([i \in DOMAIN normalizedApps |-> normalizedApps[i].score]), totalApps)),
       paidAppsPercentage |-> ToFixed2(Quot(Len(paidApps) * 100, totalApps)),
       categoryDistribution |->
         CountAll(SelectSeq([i \in DOMAIN normalizedApps |-> normalizedApps[i].category],
                            LAMBDA c : c # ""))]

KeywordReportIdle ==
  [phase |-> "idle", developerCounts |-> << >>, brandDominance |-> Quot(0, 1),
   brandPresence |-> [topBrands |-> << >>, brandDominance |-> Quot(0, 1), competitionLevel |-> ""],
   totalApps |-> 0,
   averageRating |-> Quot(0, 1), paidAppsPercentage |-> Quot(0, 1), categoryDistribution |-> << >>]

(***************************************************************************)
(* Install-volume competition model of analyze_top_keywords (part_000)     *)
(***************************************************************************)
\* app.minInstalls || 0, app.ratings || 0
FigureOr0(v) == IF v = undefined THEN 0 ELSE v

\* totalInstalls of the Android path
TotalInstalls(appDetails) == Sum([i \in DOMAIN appDetails |-> FigureOr0(appDetails[i].minInstalls)])

\* estimatedInstalls of the iOS path: 100 installs per rating
EstimatedInstalls(appDetails) == Sum([i \in DOMAIN appDetails |-> FigureOr0(appDetails[i].ratings)]) * 100

\* the if-chain of the Android path on totalInstalls
AndroidVolumeBand(totalInstalls) ==
  IF totalInstalls > 100000000 THEN [competitionLevel |-> "Very High", keywordDifficulty |-> 9]
  ELSE IF totalInstalls > 10000000 THEN [competitionLevel |-> "High", keywordDifficulty |-> 7]
  ELSE IF totalInstalls > 1000000 THEN [competitionLevel |-> "Medium", keywordDifficulty |-> 5]
  ELSE IF totalInstalls > 100000 THEN [competitionLevel |-> "Low", keywordDifficulty |-> 3]
  ELSE [competitionLevel |-> "Very Low", keywordDifficulty |-> 1]

\* the if-chain of the iOS path on estimatedInstalls
IOSVolumeBand(estimatedInstalls) ==
  IF estimatedInstalls > 10000000 THEN [competitionLevel |-> "Very High", keywordDifficulty |-> 9]
  ELSE IF estimatedInstalls > 1000000 THEN [competitionLevel |-> "High", keywordDifficulty |-> 7]
  ELSE IF estimatedInstalls > 100000 THEN [competitionLevel |-> "Medium", keywordDifficulty |-> 5]
  ELSE IF estimatedInstalls > 10000 THEN [competitionLevel |-> "Low", keywordDifficulty |-> 3]
  ELSE [competitionLevel |-> "Very Low", keywordDifficulty |-> 1]

\* Math.round(Math.log10(n)) for an integer n >= 1: the number of powers
\* 10^(k + 1/2), k >= 0, below n (their integer parts are listed)
RoundLog10(n) ==
  Cardinality({h \in {3, 31, 316, 3162, 31622, 316227, 3162277, 31622776, 316227766} : n > h})

\* Math.min(Math.round(Math.log10(installs) - 2), 10), raised to 0 when negative
\* (log10(0) is -Infinity)
EstimatedPopularity(installs) ==
  LET p == IF installs = 0 THEN -1 ELSE RoundLog10(installs) - 2
      q == IF p < 10 THEN p ELSE 10
  IN  IF q < 0 THEN 0 ELSE q

\* the volume part of keywordAnalysis, as the platform's branch fills it
AnalyzeKeywordVolume(p, appDetails) ==
  LET installs == IF p = "android" THEN TotalInstalls(appDetails) ELSE EstimatedInstalls(appDetails)
      band == IF p = "android" THEN AndroidVolumeBand(installs) ELSE IOSVolumeBand(installs)
  IN  [phase |-> "done",
       platform |-> p,
       totalInstallsEstimate |-> installs,
       competitionLevel |-> band.competitionLevel,
       keywordDifficulty |-> band.keywordDifficulty,
       estimatedPopularity |-> EstimatedPopularity(installs)]

VolumeReportIdle ==
  [phase |-> "idle", platform |-> "none", totalInstallsEstimate |-> 0,
   competitionLevel |-> "", keywordDifficulty |-> 0, estimatedPopularity |-> 0]

\* number of apps of a search result of the install-volume analysis
MaxVolumeApps == 2

\* the app details upstream returns: minInstalls on Android, ratings on iOS
\* (either may be missing)
AndroidDetails ==
  UNION {[1..k -> [minInstalls : {undefined, 60000, 100000, 1000000, 10000000, 100000000}]] :
           k \in 0..MaxVolumeApps}

IOSDetails ==
  UNION {[1..k -> [ratings : {undefined, 600, 1000, 10000, 100000, 1000000}]] :
           k \in 0..MaxVolumeApps}

(***************************************************************************)
(* Tool handlers of server.js and their upstream fetches                   *)
(*                                                                         *)
(* A handler is the sequence of the upstream fetches it awaits. Each fetch *)
(* says where the handler goes on when upstream resolves with a well-formed*)
(* result ("ok"), with an empty list ("empty"), with undefined or rejects: *)
(* to a later fetch, to the return of the report (Return), or to the catch *)
(* block of the handler with the exception (Throw). onUndefined is the     *)
(* message of the exception that the code reading an undefined result      *)
(* raises, "" when the code tests the result before it reads it.           *)
(***************************************************************************)
Return == 0

Throw == -1

\* messages of the rejections of upstream
Failures == {"timeout", "App not found (404)"}

\* message of the TypeError of a property read on undefined
TypeErrorMessage == "Cannot read properties of undefined"

\* pages of iOS reviews a call fetches at most (the code stops at page 10)
MaxPages == 2

\* message of the Error that get_version_history throws on a missing record
NoDetailsMessage == "No app details returned"

Fetch(name, ok, empty, undef, reject, onUndefined) ==
  [fetch |-> name, ok |-> ok, empty |-> empty, undefined |-> undef, reject |-> reject,
   onUndefined |-> onUndefined]

\* search_app: one search, the results reshaped by results.map
search_app(req) == << Fetch("search", Return, Return, Throw, Throw, TypeErrorMessage) >>

\* get_app_details: one app lookup, the record reshaped field by field
get_app_details(req) == << Fetch("app", Return, Return, Throw, Throw, TypeErrorMessage) >>

\* analyze_top_keywords: the search, and on iOS the details of every result
\* through Promise.all (the try around the unawaited call catches nothing)
analyze_top_keywords(req) ==
  IF req.platform = "android"
    THEN << Fetch("search", Return, Return, Throw, Throw, TypeErrorMessage) >>
    ELSE << Fetch("search", 2, Return, Throw, Throw, TypeErrorMessage),
            Fetch("app", Return, Return, Throw, Throw, TypeErrorMessage) >>

\* analyze_reviews: on Android one fetch of the reviews; on iOS a loop over the
\* pages, each page preceded by the app lookup when appId is not numeric, the
\* rejections (and a page that is not there) caught inside the loop, which
\* they only break
analyze_reviews(req) ==
  IF req.platform = "android"
    THEN << Fetch("reviews", Return, Return, Throw, Throw, TypeErrorMessage) >>
  ELSE IF req.numericId
    THEN [k \in 1..MaxPages |->
            Fetch("reviews", IF k < MaxPages THEN k + 1 ELSE Return, Return, Return, Return, "")]
  ELSE [k \in 1..(2 * MaxPages) |->
          IF k % 2 = 1 THEN Fetch("app", k + 1, Return, Return, Return, TypeErrorMessage)
          ELSE Fetch("reviews", IF k < 2 * MaxPages THEN k + 1 ELSE Return,
                     Return, Return, Return, "")]

\* get_pricing_details: one app lookup
get_pricing_details(req) == << Fetch("app", Return, Return, Throw, Throw, TypeErrorMessage) >>

\* get_developer_info: on iOS the search and the lookup that turn a developer
\* name into its id, then the developer's apps, the lookup of the first app
\* and, with includeApps, the details of every app, each with .catch(err => null)
get_developer_info(req) ==
  LET more == IF req.includeApps THEN 3 ELSE Return
      apps == << Fetch("developer", 2, Return, Return, Throw, ""),
                 Fetch("app", more, Return, Throw, Throw, TypeErrorMessage),
                 Fetch("app", Return, Return, Throw, Return, TypeErrorMessage) >>
      Shift(f, n) == [f EXCEPT !.ok = IF @ > 0 THEN @ + n ELSE @]
  IN  IF req.platform = "android" \/ req.numericId THEN apps
      ELSE << Fetch("search", 2, 3, 3, Throw, ""),
              Fetch("app", 3, 3, Throw, Throw, TypeErrorMessage) >>
           \o [k \in 1..3 |-> Shift(apps[k], 2)]

\* get_version_history: one app lookup; on iOS the lookup and the reshaping
\* sit in a try of their own, whose catch empties the history
get_version_history(req) ==
  IF req.platform = "android"
    THEN << Fetch("app", Return, Return, Throw, Throw, TypeErrorMessage) >>
    ELSE << Fetch("app", Return, Return, Return, Return, NoDetailsMessage) >>

Tools ==
  {"search_app", "get_app_details", "analyze_top_keywords", "analyze_reviews",
   "get_pricing_details", "get_developer_info", "get_version_history"}

Handler(req) ==
  CASE req.tool = "search_app" -> search_app(req)
    [] req.tool = "get_app_details" -> get_app_details(req)
    [] req.tool = "analyze_top_keywords" -> analyze_top_keywords(req)
    [] req.tool = "analyze_reviews" -> analyze_reviews(req)
    [] req.tool = "get_pricing_details" -> get_pricing_details(req)
    [] req.tool = "get_developer_info" -> get_developer_info(req)
    [] OTHER -> get_version_history(req)

\* the calls a client can make: the tool, the platform, whether the identifying
\* parameter (term, keyword, appId or developerId) is all digits, and includeApps
Requests ==
  [tool : Tools, platform : {"android", "ios"}, numericId : BOOLEAN, includeApps : BOOLEAN]

\* the name under which the catch block echoes the identifying parameter
EchoName(tool) ==
  CASE tool = "search_app" -> "query"
    [] tool = "analyze_top_keywords" -> "keyword"
    [] tool = "get_developer_info" -> "developerId"
    [] OTHER -> "appId"

\* the identifying parameter of a call
IdOf(req) == IF req.numericId THEN "284882218" ELSE "com.example.app"

\* return { content: [{ text: JSON.stringify({ error: error.message, <id>, platform }) }], isError: true }
ErrorResponse(req, message) ==
  [kind |-> "error", isError |-> TRUE, error |-> message,
   echo |-> [name |-> EchoName(req.tool), value |-> IdOf(req), platform |-> req.platform]]

\* return { content: [{ text: JSON.stringify(report) }] }
ReportResponse(req) ==
  [kind |-> "report", isError |-> FALSE, error |-> "",
   echo |-> [name |-> EchoName(req.tool), value |-> IdOf(req), platform |-> req.platform]]

NoResponse ==
  [kind |-> "none", isError |-> FALSE, error |-> "",
   echo |-> [name |-> "", value |-> "", platform |-> ""]]

NoRequest == [tool |-> "none", platform |-> "none", numericId |-> FALSE, includeApps |-> FALSE]

(***************************************************************************)
(* Reports of the tool handlers of server.js                               *)
(***************************************************************************)
\* longest list of apps a search of search_app returns
MaxSearch == 3

\* the records a search returns: the package or bundle name, the numeric id of
\* the App Store (a record may come without it) and the free flag
SearchRecords ==
  << [appId |-> "com.acme.notes", id |-> 553834731, free |-> "true"],
     [appId |-> "com.bolt.run", id |-> 42, free |-> "false"],
     [appId |-> "com.cyan.mail", id |-> undefined, free |-> "undefined"] >>

SearchResults == UNION {[1..k -> {SearchRecords[j] : j \in DOMAIN SearchRecords}] : k \in 0..MaxSearch}

\* the arrow function of results.map with a constant platform tag
StandardizeMutAndroidTag(p, app) ==
  IF p = "android"
    THEN [id |-> app.appId, appId |-> app.appId, free |-> app.free, platform |-> "android"]
    ELSE [id |-> ToString(app.id), appId |-> app.appId,
          free |-> IF app.free = "true" THEN "true" ELSE "false", platform |-> "android"]

\* the arrow function of results.map: on Android id is the appId; on iOS id is
\* app.id.toString() and free is app.free === true
Standardize(p, app) ==
  IF p = "android"
    THEN [id |-> app.appId, appId |-> app.appId, free |-> app.free, platform |-> "android"]
    ELSE [id |-> ToString(app.id), appId |-> app.appId,
          free |-> IF app.free = "true" THEN "true" ELSE "false", platform |-> "ios"]

\* the response of search_app to the list the search resolved with: on iOS a
\* record without id throws a TypeError in results.map, which the catch block
\* answers
SearchAppResponse(req, found) ==
  IF req.platform = "ios" /\ \E i \in DOMAIN found : found[i].id = undefined
    THEN ErrorResponse(req, TypeErrorMessage) @@ [body |-> << >>]
    ELSE LET standardized == [i \in DOMAIN found |-> Standardize(req.platform, found[i])]
         IN  ReportResponse(req) @@
               [body |-> [query |-> IdOf(req), platform |-> req.platform,
                          results |-> standardized, count |-> Len(standardized)]]

\* the app records a lookup of get_version_history resolves with: version,
\* updated (a timestamp on Google Play, a date string on the App Store; a
\* record may come without it or with a text that is no date) and the release
\* notes (recentChanges / releaseNotes), "" standing for a missing field
VersionRecords ==
  [version : {"8.9.1", "Varies with device", ""},
   updated : {"1700000000000", "2023-11-14T22:13:20Z", "", "soon"},
   notes : {"Bug fixes", ""}]

\* what upstream answers to the lookup: a record, undefined, or a rejection
LookupOutcomes ==
  {[outcome |-> "ok", record |-> r] : r \in VersionRecords}
  \cup {[outcome |-> o, record |-> CHOOSE r \in VersionRecords : TRUE] :
          o \in {"undefined"} \cup Failures}

\* message of the RangeError of toISOString on an invalid Date
RangeErrorMessage == "Invalid time value"

\* the Date is valid: new Date(undefined) and new Date("soon") are not
ValidDate(updated) == updated \in {"1700000000000", "2023-11-14T22:13:20Z"}

\* new Date(updated).toISOString() of a valid Date
ToISOString(updated) ==
  CASE updated = "1700000000000" -> "2023-11-14T22:13:20.000Z"
    [] updated = "2023-11-14T22:13:20Z" -> "2023-11-14T22:13:20.000Z"

\* new Date().toISOString()
Now == "2026-01-01T00:00:00.000Z"

\* currentVersion: null
noVersion == [versionNumber |-> "", releaseDate |-> "", changelog |-> "", isCurrentVersion |-> FALSE]

\* x || fallback of a text field
OrElse(x, fallback) == IF x = "" THEN fallback ELSE x

\* the response with versionInfo and the metadata added to it
VersionResponse(req, capabilities, currentVersion, history) ==
  ReportResponse(req) @@
    [body |-> [appId |-> IdOf(req), platform |-> req.platform,
               platformCapabilities |-> capabilities,
               currentVersion |-> currentVersion,
               history |-> history,
               metadata |-> [totalVersions |-> Len(history),
                             limitations |-> IF req.platform = "android" THEN 2 ELSE 0]]]

\* versionInfo after the inner catch of the iOS branch
VersionsUnavailable(req, message) ==
  VersionResponse(req,
    [fullHistoryAvailable |-> FALSE,
     description |-> <<"Could not retrieve version information: ", message>>],
    noVersion, << >>)

\* the iOS branch of get_version_history: everything the lookup and the
\* reshaping throw is caught inside the branch
IOSVersionHistory(req, lookup) ==
  IF lookup.outcome \in Failures THEN VersionsUnavailable(req, lookup.outcome)
  ELSE IF lookup.outcome = "undefined" THEN VersionsUnavailable(req, NoDetailsMessage)
  ELSE IF lookup.record.updated # "" /\ ~ValidDate(lookup.record.updated)
    THEN VersionsUnavailable(req, RangeErrorMessage)
  ELSE LET currentVersion ==
             [versionNumber |-> OrElse(lookup.record.version, "Unknown version"),
              releaseDate |-> IF lookup.record.updated # ""
                                THEN ToISOString(lookup.record.updated) ELSE Now,
              changelog |-> OrElse(lookup.record.notes, "No changelog provided"),
              isCurrentVersion |-> TRUE]
       IN  VersionResponse(req,
             [fullHistoryAvailable |-> FALSE,
              description |-> <<"Only latest version available - API limitation">>],
             currentVersion, <<currentVersion>>)

\* the Android branch of get_version_history: what the lookup and the
\* reshaping throw reaches the catch block of the handler
AndroidVersionHistory(req, lookup) ==
  IF lookup.outcome \in Failures THEN ErrorResponse(req, lookup.outcome) @@ [body |-> << >>]
  ELSE IF lookup.outcome = "undefined"
    THEN ErrorResponse(req, TypeErrorMessage) @@ [body |-> << >>]
  ELSE IF ~ValidDate(lookup.record.updated)
    THEN ErrorResponse(req, RangeErrorMessage) @@ [body |-> << >>]
  ELSE LET currentVersion ==
             [versionNumber |-> lookup.record.version,
              releaseDate |-> ToISOString(lookup.record.updated),
              changelog |-> OrElse(lookup.record.notes, "No changelog provided"),
              isCurrentVersion |-> TRUE]
       IN  VersionResponse(req,
             [fullHistoryAvailable |-> req.platform = "ios",
              description |-> <<"Only latest version available due to Google Play Store limitations">>],
             currentVersion, <<currentVersion>>)

(***************************************************************************)
(* Full-detail lookups of analyze_top_keywords on iOS (server.js)          *)
(***************************************************************************)
\* longest search result whose apps are looked up one by one
MaxDetailApps == 3

\* the apps of the App Store the search finds; its records carry no ratings
StoreApps == {"com.acme.notes", "com.bolt.run"}

SearchRecord(appId) ==
  [appId |-> appId, developer |-> IF appId = "com.acme.notes" THEN "Acme" ELSE "Bolt",
   ratings |-> undefined]

\* the record memoizedAppStore.app resolves with ({ratings: true})
DetailRecord(appId) == [SearchRecord(appId) EXCEPT !.ratings = 1200]

\* what a lookup can do: resolve, throw before it returns its promise, or
\* return a promise that is rejected
LookupResults == {"ok", "throws"} \cup Failures

\* the element of fullDetailsPromises: the promise of the lookup, or the search
\* record when the call itself throws (the try holds no await, so that a
\* rejected promise passes through it)
FullDetails(app, lookup) ==
  IF lookup = "ok" THEN [settled |-> "fulfilled", value |-> DetailRecord(app.appId), reason |-> ""]
  ELSE IF lookup = "throws" THEN [settled |-> "fulfilled", value |-> app, reason |-> ""]
  ELSE [settled |-> "rejected", value |-> app, reason |-> lookup]

\* the arrow function of normalizedApps on iOS
NormalizeIOS(app) ==
  [appId |-> app.appId, developer |-> app.developer, ratings |-> FigureOr0(app.ratings)]

\* the responses analyze_top_keywords can give on iOS: Promise.all is rejected
\* with the reason of the promise that is rejected first, which the catch
\* block answers; otherwise the report covers the values of the promises
KeywordDetailResponses(req, found, lookups) ==
  LET promises == [i \in DOMAIN found |-> FullDetails(found[i], lookups[i])]
      rejected == {i \in DOMAIN promises : promises[i].settled = "rejected"}
      topApps == [i \in DOMAIN promises |-> NormalizeIOS(promises[i].value)]
  IN  IF rejected # {}
        THEN {ErrorResponse(req, promises[i].reason) @@ [body |-> << >>] : i \in rejected}
        ELSE {ReportResponse(req) @@
                [body |-> [topApps |-> topApps, totalApps |-> Len(topApps)]]}

(***************************************************************************)
(* Portfolio of get_developer_info (server.js)                             *)
(***************************************************************************)
\* largest portfolio of a developer
MaxPortfolio == 3

\* the apps of a portfolio, as their full details describe them; a record may
\* come without score or minInstalls
PortfolioApps ==
  {[appId |-> "com.acme.notes", score |-> 4, ratings |-> 100, minInstalls |-> 1000],
   [appId |-> "com.acme.mail", score |-> undefined, ratings |-> 50, minInstalls |-> undefined]}

Portfolios == UNION {[1..k -> PortfolioApps] : k \in 0..MaxPortfolio}

\* the value a failed lookup is replaced with by .catch(err => null)
nullApp == [appId |-> "", score |-> undefined, ratings |-> undefined, minInstalls |-> undefined]

\* a lookup whose failure lets the app pass as if it had been found
CaughtLookupMutKeepsApp(app, outcome) == app

\* memoized.app({...}).catch(err => null)
CaughtLookup(app, outcome) == IF outcome = "ok" THEN app ELSE nullApp

\* the entry of developerInfo.apps for an app
PortfolioEntry(p, app) ==
  [appId |-> app.appId, score |-> app.score, ratings |-> app.ratings,
   installs |-> IF p = "android" THEN app.minInstalls ELSE undefined]

\* developerInfo when the developer has no app: the initial object
NoPortfolio ==
  [totalApps |-> 0,
   metrics |-> [totalInstalls |-> 0, averageRating |-> Quot(0, 1), totalRatings |-> 0],
   apps |-> << >>]

\* developerInfo after the lookup of the first app and, with includeApps, after
\* the lookups of all the apps; totalInstalls is null on iOS
DeveloperInfo(req, apps, lookups) ==
  LET appDetails == [i \in DOMAIN apps |-> CaughtLookup(apps[i], lookups[i])]
      validAppDetails == SelectSeq(appDetails, LAMBDA app : app # nullApp)
      totalRating == Sum([i \in DOMAIN validAppDetails |-> FigureOr0(validAppDetails[i].score)])
      totalRatings == Sum([i \in DOMAIN validAppDetails |-> FigureOr0(validAppDetails[i].ratings)])
      totalInstalls ==
        Sum([i \in DOMAIN validAppDetails |-> FigureOr0(validAppDetails[i].minInstalls)])
  IN  IF ~req.includeApps
        THEN [totalApps |-> Len(apps),
              metrics |-> [totalInstalls |-> IF req.platform = "android" THEN 0 ELSE undefined,
                           averageRating |-> Quot(0, 1), totalRatings |-> 0],
              apps |-> << >>]
        ELSE [totalApps |-> Len(apps),
              metrics |-> [totalInstalls |-> IF req.platform = "android" THEN totalInstalls
                                             ELSE undefined,
                           averageRating |-> Quot(totalRating, Len(validAppDetails)),
                           totalRatings |-> totalRatings],
              apps |-> [i \in DOMAIN validAppDetails |->
                          PortfolioEntry(req.platform, validAppDetails[i])]]

\* the fetches get_developer_info issues, with their outcomes, and its response:
\* on iOS a developer name is first resolved by a search and the lookup of the
\* app found; then the portfolio is fetched, its first app looked up, and with
\* includeApps every app looked up; only the failures of these last lookups
\* are caught
DeveloperCall(req, search, idLookup, apps, firstLookup, lookups) ==
  LET entry(fetch, outcome, data) ==
        [fetch |-> fetch, outcome |-> outcome,
         raised |-> IF outcome \in Failures THEN outcome ELSE "", data |-> data]
      resolves == req.platform = "ios" /\ ~req.numericId
      prefix == IF ~resolves THEN << >>
                ELSE IF search # "ok" THEN <<entry("search", search, << >>)>>
                ELSE <<entry("search", search, << >>), entry("app", idLookup, << >>)>>
      failedPrefix == resolves /\ (search \in Failures \/ (search = "ok" /\ idLookup \in Failures))
      details == IF req.includeApps
                   THEN [i \in DOMAIN apps |-> entry("appDetails", lookups[i], apps[i])]
                   ELSE << >>
      report(body) == ReportResponse(req) @@ [body |-> body]
      error(message) == ErrorResponse(req, message) @@ [body |-> << >>]
  IN  IF failedPrefix
        THEN [fetches |-> prefix, response |-> error(prefix[Len(prefix)].outcome)]
      ELSE IF apps = << >>
        THEN [fetches |-> prefix \o <<entry("developer", "empty", apps)>>,
              response |-> report(NoPortfolio)]
      ELSE IF firstLookup \in Failures
        THEN [fetches |-> prefix \o <<entry("developer", "ok", apps),
                                      entry("app", firstLookup, apps[1])>>,
              response |-> error(firstLookup)]
      ELSE [fetches |-> prefix \o <<entry("developer", "ok", apps), entry("app", "ok", apps[1])>>
                        \o details,
            response |-> report(DeveloperInfo(req, apps, lookups))]

(***************************************************************************)
(* Page loop of analyze_reviews on iOS (server.js and part_000)            *)
(***************************************************************************)
\* last page of reviews the App Store serves
PageLimit == 10

\* number of reviews of a full page, below which part_000 stops
PageSize == 50

\* largest num of the calls whose pages hold a review or two
MaxNum == 11

\* the num of the calls of the model: small ones, and in part_000 (whose num is
\* at least 1) the multiples of a full page and their successors
Nums(variant) ==
  IF variant = "server.js" THEN 0..MaxNum
  ELSE (1..2) \cup {PageSize * k + d : k \in 1..PageLimit, d \in 0..1}

\* the sizes of the pages upstream answers with
PageSizes(variant) == IF variant = "server.js" THEN 0..2 ELSE {0, 1, PageSize}

\* page p of n reviews; a review is known by its page and its place on it
ReviewsPage(p, n) == [i \in 1..n |-> <<p, i>>]

\* Math.min(Math.ceil(num / 50), 10) of part_000; server.js tests page <= 10
maxPages(req) ==
  IF req.variant = "server.js" THEN PageLimit
  ELSE LET pages == (req.num + PageSize - 1) \div PageSize
       IN  IF pages < PageLimit THEN pages ELSE PageLimit

\* the loop test without the page limit
LoopRunsMutNoLimit(req, page, allReviews) == Len(allReviews) < req.num

\* the test of the loop before page is requested:
\* allReviews.length < num && page <= 10 (page <= maxPages in part_000)
LoopRuns(req, page, allReviews) == Len(allReviews) < req.num /\ page <= maxPages(req)

\* the batch without the cut to num
BatchOfMutUncut(req, allReviews) == allReviews

\* allReviews.slice(0, num)
BatchOf(req, allReviews) == Slice0(allReviews, req.num)

\* the response that reports the analysis of the batch
ReviewsResponse(req, batch) ==
  ReportResponse(req) @@ [body |-> [totalReviews |-> Len(batch)]]

(***************************************************************************)
(* The state machine                                                       *)
(***************************************************************************)
PricingIdle ==
  [platform |-> "none", basePrice |-> [amount |-> 0, isFree |-> TRUE],
   inAppPurchases |-> [offers |-> FALSE], subscriptions |-> [offers |-> FALSE],
   adSupported |-> "undefined", monetizationModel |-> "undefined"]

\* number of times the aggregator is run on one batch
MaxRuns == 2

Idle ==
  /\ text = << >>
  /\ sentiment = "none"
  /\ pricingDetails = PricingIdle
  /\ results = << >>
  /\ keywordReport = KeywordReportIdle
  /\ reviews = << >>
  /\ received = << >>
  /\ platform = "none"
  /\ reports = << >>
  /\ analysis = AnalysisIdle
  /\ volumeReport = VolumeReportIdle
  /\ request = NoRequest
  /\ stage = 0
  /\ fetches = << >>
  /\ response = NoResponse
  /\ calls = << >>
  /\ heap = << >>
  /\ cache = {}

Init == Idle

\* one call of analyzeSentiment on a text
ClassifySentiment ==
  \E t \in SentimentTexts :
    /\ sentiment = "none"
    /\ text' = t
    /\ sentiment' = analyzeSentiment(t)
    /\ UNCHANGED <<pricingDetails, results, keywordReport, reviews, received,
                   platform, reports, analysis, volumeReport, request, stage, fetches, response, calls, heap, cache>>

\* get_pricing_details adds the monetization model to the pricing record it built
ClassifyMonetization ==
  \E pd \in PricingRecords :
    /\ pricingDetails = PricingIdle
    /\ pricingDetails' = [pd EXCEPT !.monetizationModel = determineMonetizationModel(pd)]
    /\ UNCHANGED <<text, sentiment, results, keywordReport, reviews, received,
                   platform, reports, analysis, volumeReport, request, stage, fetches, response, calls, heap, cache>>

\* analyze_top_keywords on the apps the search returned
AnalyzeKeyword ==
  \E apps \in AppLists :
    /\ keywordReport.phase = "idle"
    /\ volumeReport.phase = "idle"
    /\ results' = apps
    /\ keywordReport' = AnalyzeTopKeywords(apps)
    /\ UNCHANGED <<text, sentiment, pricingDetails, reviews, received,
                   platform, reports, analysis, volumeReport, request, stage, fetches, response, calls, heap, cache>>

\* analyze_top_keywords of part_000 on the details of the apps found on Android
AnalyzeVolumeAndroid ==
  \E appDetails \in AndroidDetails :
    /\ keywordReport.phase = "idle"
    /\ volumeReport.phase = "idle"
    /\ results' = appDetails
    /\ volumeReport' = AnalyzeKeywordVolume("android", appDetails)
    /\ UNCHANGED <<text, sentiment, pricingDetails, keywordReport, reviews, received,
                   platform, reports, analysis, request, stage, fetches, response, calls, heap, cache>>

\* analyze_top_keywords of part_000 on the details of the apps found on iOS
AnalyzeVolumeIOS ==
  \E appDetails \in IOSDetails :
    /\ keywordReport.phase = "idle"
    /\ volumeReport.phase = "idle"
    /\ results' = appDetails
    /\ volumeReport' = AnalyzeKeywordVolume("ios", appDetails)
    /\ UNCHANGED <<text, sentiment, pricingDetails, keywordReport, reviews, received,
                   platform, reports, analysis, request, stage, fetches, response, calls, heap, cache>>

\* upstream delivers a review batch for an app of one of the platforms
FetchReviews ==
  /\ platform = "none"
  /\ \E b \in Batches, p \in {"android", "ios"} :
       /\ platform' = p
       /\ received' = b
       /\ reviews' = b
  /\ UNCHANGED <<text, sentiment, pricingDetails, results, keywordReport, reports, analysis, volumeReport, request, stage, fetches, response, calls, heap, cache>>

\* analyze_reviews of the Android path runs the aggregator on the batch
RunAndroidAggregator ==
  /\ platform = "android"
  /\ Len(reports) < MaxRuns
  /\ LET call == analyzeAndroidReviews(reviews)
     IN  /\ reviews' = call.reviews
         /\ reports' = Append(reports, call.report)
  /\ UNCHANGED <<text, sentiment, pricingDetails, results, keywordReport,
                 received, platform, analysis, volumeReport, request, stage, fetches, response, calls, heap, cache>>

\* analyze_reviews of the iOS path runs the aggregator on the batch
RunIOSAggregator ==
  /\ platform = "ios"
  /\ Len(reports) < MaxRuns
  /\ LET call == analyzeIOSReviews(reviews)
     IN  /\ reviews' = call.reviews
         /\ reports' = Append(reports, call.report)
  /\ UNCHANGED <<text, sentiment, pricingDetails, results, keywordReport,
                 received, platform, analysis, volumeReport, request, stage, fetches, response, calls, heap, cache>>

\* analyze_reviews of server.js analyses its own copy of the delivered batch,
\* which it only reads
RunServerAnalysis ==
  /\ platform # "none"
  /\ analysis.phase = "idle"
  /\ analysis' = AnalyzeReviews(received)
  /\ UNCHANGED <<text, sentiment, pricingDetails, results, keywordReport,
                 reviews, received, platform, reports, volumeReport, request, stage, fetches, response, calls, heap, cache>>

\* a client calls a tool: the handler issues its first upstream fetch
CallTool ==
  \E req \in Requests :
    /\ request = NoRequest
    /\ request' = req
    /\ stage' = 1
    /\ UNCHANGED <<text, sentiment, pricingDetails, results, keywordReport, reviews, received,
                   platform, reports, analysis, volumeReport, fetches, response, calls, heap, cache>>

\* the handler goes on from the fetch it awaited: to the next fetch, to the
\* return of its report, or to its catch block with the message of the
\* exception; the log keeps the message of the exception the step raised
Continue(outcome, target, message) ==
  /\ fetches' = Append(fetches, [fetch |-> Handler(request)[stage].fetch, outcome |-> outcome,
                                 raised |-> message])
  /\ stage' = IF target > 0 THEN target ELSE 0
  /\ response' = IF target = Throw THEN ErrorResponse(request, message)
                 ELSE IF target = Return THEN ReportResponse(request)
                 ELSE response
  /\ UNCHANGED <<text, sentiment, pricingDetails, results, keywordReport, reviews, received,
                 platform, reports, analysis, volumeReport, request, calls, heap, cache>>

\* upstream resolves the awaited fetch: with a well-formed result, with an
\* empty list (search, reviews, developer) or with undefined
UpstreamResolves ==
  /\ stage > 0
  /\ LET f == Handler(request)[stage]
     IN  \/ Continue("ok", f.ok, "")
         \/ f.fetch # "app" /\ Continue("empty", f.empty, "")
         \/ Continue("undefined", f.undefined, f.onUndefined)

\* upstream rejects the awaited fetch
UpstreamRejects ==
  /\ stage > 0
  /\ \E message \in Failures : Continue(message, Handler(request)[stage].reject, message)

\* search_app, from the call to its response, on the list the search resolves with
SearchApp ==
  /\ request = NoRequest
  /\ \E p \in {"android", "ios"}, numeric \in BOOLEAN, found \in SearchResults :
    LET req == [tool |-> "search_app", platform |-> p, numericId |-> numeric,
                includeApps |-> FALSE]
    IN  /\ request' = req
        /\ fetches' = <<[fetch |-> "search", outcome |-> "ok", raised |-> "", data |-> found]>>
        /\ response' = SearchAppResponse(req, found)
        /\ UNCHANGED <<text, sentiment, pricingDetails, results, keywordReport, reviews,
                       received, platform, reports, analysis, volumeReport, stage, calls, heap, cache>>

\* get_version_history, from the call to its response, on what the app lookup
\* resolves with or is rejected with
GetVersionHistory ==
  /\ request = NoRequest
  /\ \E p \in {"android", "ios"}, numeric \in BOOLEAN, lookup \in LookupOutcomes :
    LET req == [tool |-> "get_version_history", platform |-> p, numericId |-> numeric,
                includeApps |-> FALSE]
    IN  /\ request' = req
        /\ fetches' = <<[fetch |-> "app", outcome |-> lookup.outcome,
                         raised |-> IF lookup.outcome \in Failures THEN lookup.outcome ELSE "",
                         data |-> lookup.record]>>
        /\ response' = IF p = "android" THEN AndroidVersionHistory(req, lookup)
                       ELSE IOSVersionHistory(req, lookup)
        /\ UNCHANGED <<text, sentiment, pricingDetails, results, keywordReport, reviews,
                       received, platform, reports, analysis, volumeReport, stage, calls, heap, cache>>

\* the loop is left: the batch is cut out of allReviews and analysed
LeaveLoop(req, allReviews) ==
  /\ stage' = 0
  /\ received' = allReviews
  /\ reviews' = BatchOf(req, allReviews)
  /\ response' = ReviewsResponse(req, BatchOf(req, allReviews))

\* the exception reaches the catch block of the handler
FailCall(req, message) ==
  /\ stage' = 0
  /\ response' = ErrorResponse(req, message) @@ [body |-> << >>]
  /\ UNCHANGED <<reviews, received, calls, heap, cache>>

\* a client calls analyze_reviews for an iOS app; part_000 first looks the app up
CallAnalyzeReviews ==
  /\ request = NoRequest
  /\ \E variant \in {"server.js", "part_000"}, numeric \in BOOLEAN :
    \E num \in Nums(variant), lookup \in {"ok"} \cup Failures :
      LET req == [tool |-> "analyze_reviews", platform |-> "ios", numericId |-> numeric,
                  includeApps |-> FALSE, num |-> num, variant |-> variant]
      IN  /\ variant = "server.js" => lookup = "ok"
          /\ request' = req
          /\ fetches' = IF variant = "server.js" THEN << >>
                        ELSE <<[fetch |-> "app", page |-> 0, outcome |-> lookup,
                                raised |-> IF lookup = "ok" THEN "" ELSE lookup, data |-> << >>]>>
          /\ IF lookup # "ok" THEN FailCall(req, lookup)
             ELSE IF LoopRuns(req, 1, << >>)
               THEN stage' = 1 /\ UNCHANGED <<reviews, received, response, calls, heap, cache>>
             ELSE LeaveLoop(req, << >>)
          /\ UNCHANGED <<text, sentiment, pricingDetails, results, keywordReport,
                         platform, reports, analysis, volumeReport, calls, heap, cache>>

\* upstream answers the request of page `stage` with a page of reviews
PageArrives ==
  /\ request.tool = "analyze_reviews"
  /\ stage > 0
  /\ \E n \in PageSizes(request.variant) :
    LET pageReviews == ReviewsPage(stage, n)
        allReviews == received \o pageReviews
        last == IF request.variant = "server.js" THEN n = 0 ELSE n < PageSize
    IN  /\ fetches' = Append(fetches, [fetch |-> "reviews", page |-> stage, outcome |-> "ok",
                                       raised |-> "", data |-> pageReviews])
        /\ IF ~last /\ LoopRuns(request, stage + 1, allReviews)
             THEN stage' = stage + 1 /\ received' = allReviews /\ UNCHANGED <<reviews, response, calls, heap, cache>>
           ELSE LeaveLoop(request, allReviews)
        /\ UNCHANGED <<text, sentiment, pricingDetails, results, keywordReport,
                       platform, reports, analysis, volumeReport, request, calls, heap, cache>>

\* upstream rejects the request of page `stage`: server.js catches the
\* rejection inside the loop and leaves it, part_000 lets it reach the handler
PageFails ==
  \E message \in Failures :
    /\ request.tool = "analyze_reviews"
    /\ stage > 0
    /\ fetches' = Append(fetches, [fetch |-> "reviews", page |-> stage, outcome |-> message,
                                   raised |-> message, data |-> << >>])
    /\ IF request.variant = "server.js" THEN LeaveLoop(request, received) ELSE FailCall(request, message)
    /\ UNCHANGED <<text, sentiment, pricingDetails, results, keywordReport,
                   platform, reports, analysis, volumeReport, request, calls, heap, cache>>

\* server.js looks the app of a non-numeric appId up before it requests the
\* page; a rejected lookup is caught inside the loop, which it leaves
LookupFails ==
  \E message \in Failures :
    /\ request.tool = "analyze_reviews"
    /\ request.variant = "server.js"
    /\ ~request.numericId
    /\ stage > 0
    /\ fetches' = Append(fetches, [fetch |-> "app", page |-> stage, outcome |-> message,
                                   raised |-> message, data |-> << >>])
    /\ LeaveLoop(request, received)
    /\ UNCHANGED <<text, sentiment, pricingDetails, results, keywordReport,
                   platform, reports, analysis, volumeReport, request, calls, heap, cache>>

\* analyze_top_keywords for the App Store, from the call to its response, on
\* the list the search resolves with and on what the lookup of each app does
AnalyzeKeywordIOS ==
  /\ request = NoRequest
  /\ \E k \in 0..MaxDetailApps, numeric \in BOOLEAN :
    \E ids \in [1..k -> StoreApps], lookups \in [1..k -> LookupResults] :
      LET req == [tool |-> "analyze_top_keywords", platform |-> "ios", numericId |-> numeric,
                  includeApps |-> FALSE]
          found == [i \in 1..k |-> SearchRecord(ids[i])]
      IN  /\ request' = req
          /\ results' = found
          /\ fetches' = <<[fetch |-> "search", outcome |-> "ok", raised |-> "", data |-> found]>>
                        \o [i \in 1..k |->
                              [fetch |-> "app", outcome |-> lookups[i],
                               raised |-> IF lookups[i] = "ok" THEN "" ELSE lookups[i],
                               data |-> found[i]]]
          /\ response' \in KeywordDetailResponses(req, found, lookups)
          /\ UNCHANGED <<text, sentiment, pricingDetails, keywordReport, reviews,
                         received, platform, reports, analysis, volumeReport, stage, calls, heap, cache>>

\* get_developer_info, from the call to its response, on the portfolio upstream
\* returns and on the outcome of every fetch; on Android the lookup of the
\* first app among all the apps repeats the call made just before, which the
\* memoized fetcher answers from its cache
GetDeveloperInfo ==
  /\ request = NoRequest
  /\ \E p \in {"android", "ios"}, numeric \in BOOLEAN, includeApps \in BOOLEAN :
    \E search \in {"ok", "empty"} \cup Failures, idLookup \in {"ok"} \cup Failures,
       apps \in Portfolios, firstLookup \in {"ok"} \cup Failures :
      \E lookups \in [DOMAIN apps -> {"ok"} \cup Failures] :
        LET req == [tool |-> "get_developer_info", platform |-> p, numericId |-> numeric,
                    includeApps |-> includeApps]
            call == DeveloperCall(req, search, idLookup, apps, firstLookup, lookups)
        IN  /\ (p = "android" /\ apps # << >>) => lookups[1] = "ok"
            /\ request' = req
            /\ fetches' = call.fetches
            /\ response' = call.response
            /\ UNCHANGED <<text, sentiment, pricingDetails, results, keywordReport, reviews,
                           received, platform, reports, analysis, volumeReport, stage, calls, heap, cache>>

(***************************************************************************)
(* Requests in flight: the memoized fetchers and the awaits of the         *)
(* handlers of analyze_reviews and get_app_details                         *)
(***************************************************************************)
\* most requests a process serves
MaxCalls == 2

\* the two servers of the repository; a process runs one of them
Variants == {"server.js", "part_000"}

\* the app the requests are about
CallApps == {"com.example.app"}

\* the review batches upstream delivers to the requests in flight
DeliveredBatches == {MkBatch(<<1, 2>>), MkBatch(<< >>)}

\* the app records upstream delivers (the scrapers set no platform field)
DeliveredApps == {[title |-> "Notes", platform |-> ""], [title |-> "Notes 2", platform |-> ""]}

\* what upstream resolves a fetch with
Deliveries(key) == IF key[1] = "reviews" THEN DeliveredBatches ELSE DeliveredApps

\* server.js wraps both scrapers with memoized(); part_000 calls them directly
MemoizedMutEverywhere(variant) == TRUE

Memoized(variant) == variant = "server.js"

\* the object cached for a fetch key, 0 if there is none
Cached(c, key) == IF \E e \in c : e[1] = key THEN (CHOOSE e \in c : e[1] = key)[2] ELSE 0

\* the call of a fetcher: the memoized fetcher hands out the promise it has
\* cached for the key, any other call starts a fetch of its own
CallFetcher(variant, key, h, c) ==
  IF Memoized(variant) /\ Cached(c, key) # 0
    THEN [ref |-> Cached(c, key), heap |-> h, cache |-> c]
    ELSE [ref |-> Len(h) + 1,
          heap |-> Append(h, [key |-> key, state |-> "pending", delivered |-> << >>, data |-> << >>]),
          cache |-> IF Memoized(variant) THEN c \cup {<<key, Len(h) + 1>>} ELSE c]

\* the fetch a tool issues first
FirstFetch(tool, platform_, appId) ==
  <<IF tool = "analyze_reviews" THEN "reviews" ELSE "app", platform_, appId>>

\* the handler of call c from the promise it awaits, resolved in heap h, to
\* its next await or to its report; the heap and the cache as it leaves them
Resumed(c, h, ch) ==
  LET r == c.awaited
  IN  IF c.tool = "get_app_details"
        THEN IF c.variant = "part_000"
               \* details.platform = "android" / "ios" writes the fetched object
               THEN LET details == [h[r].data EXCEPT !.platform = c.platform]
                    IN  [call |-> [c EXCEPT !.pc = "done", !.report = details],
                         heap |-> [h EXCEPT ![r].data = details], cache |-> ch]
               \* server.js builds a new record from the fields of the fetched one
               ELSE [call |-> [c EXCEPT !.pc = "done",
                                        !.report = [title |-> h[r].data.title, platform |-> c.platform]],
                     heap |-> h, cache |-> ch]
      ELSE IF c.variant = "server.js"
        \* reviews = result.data || [], which the analysis only reads
        THEN [call |-> [c EXCEPT !.pc = "done", !.report = AnalyzeReviews(h[r].data)],
              heap |-> h, cache |-> ch]
      ELSE IF c.pc = "reviews"
        \* part_000 fetches the app details after the reviews
        THEN LET f == CallFetcher(c.variant, <<"app", c.platform, c.appId>>, h, ch)
             IN  [call |-> [c EXCEPT !.pc = "app", !.reviewsData = r, !.awaited = f.ref],
                  heap |-> f.heap, cache |-> f.cache]
        \* analyzeAndroidReviews(reviewsData.data, appDetails) sorts the array it is given
        ELSE LET run == analyzeAndroidReviews(h[c.reviewsData].data)
             IN  [call |-> [c EXCEPT !.pc = "done", !.report = run.report],
                  heap |-> [h EXCEPT ![c.reviewsData].data = run.reviews], cache |-> ch]

\* a tool request arrives: the handler runs to its first await
Call ==
  /\ request = NoRequest
  /\ Len(calls) < MaxCalls
  /\ \E v \in Variants, tool \in {"analyze_reviews", "get_app_details"},
        p \in {"android", "ios"}, appId \in CallApps :
       /\ calls # << >> => calls[1].variant = v
       /\ tool = "analyze_reviews" => p = "android"
       /\ LET f == CallFetcher(v, FirstFetch(tool, p, appId), heap, cache)
          IN  /\ calls' = Append(calls, [variant |-> v, tool |-> tool, platform |-> p, appId |-> appId,
                                         pc |-> FirstFetch(tool, p, appId)[1], awaited |-> f.ref, reviewsData |-> 0,
                                         report |-> << >>])
              /\ heap' = f.heap
              /\ cache' = f.cache
  /\ UNCHANGED <<text, sentiment, pricingDetails, results, keywordReport, reviews, received,
                 platform, reports, analysis, volumeReport, request, stage, fetches, response>>

\* upstream answers a fetch: its promise resolves with a new object
Resolve ==
  /\ \E r \in DOMAIN heap :
       /\ heap[r].state = "pending"
       /\ \E d \in Deliveries(heap[r].key) :
            heap' = [heap EXCEPT ![r] = [@ EXCEPT !.state = "resolved", !.delivered = d, !.data = d]]
  /\ UNCHANGED <<text, sentiment, pricingDetails, results, keywordReport, reviews, received,
                 platform, reports, analysis, volumeReport, request, stage, fetches, response,
                 calls, cache>>

\* a handler whose awaited promise has resolved runs on, alone, to its next
\* await or to its report
Resume ==
  /\ \E i \in DOMAIN calls :
       /\ calls[i].pc # "done"
       /\ heap[calls[i].awaited].state = "resolved"
       /\ LET next == Resumed(calls[i], heap, cache)
          IN  /\ calls' = [calls EXCEPT ![i] = next.call]
              /\ heap' = next.heap
              /\ cache' = next.cache
  /\ UNCHANGED <<text, sentiment, pricingDetails, results, keywordReport, reviews, received,
                 platform, reports, analysis, volumeReport, request, stage, fetches, response>>

\* an entry of a memoized fetcher reaches its maxAge
Expire ==
  /\ \E e \in cache : cache' = cache \ {e}
  /\ UNCHANGED <<text, sentiment, pricingDetails, results, keywordReport, reviews, received,
                 platform, reports, analysis, volumeReport, request, stage, fetches, response,
                 calls, heap>>

NextSentiment == ClassifySentiment

NextPricing == ClassifyMonetization

NextKeyword == AnalyzeKeyword \/ AnalyzeVolumeAndroid \/ AnalyzeVolumeIOS

NextReviews == FetchReviews \/ RunAndroidAggregator \/ RunIOSAggregator \/ RunServerAnalysis

SpecSentiment == Init /\ [][NextSentiment]_vars

SpecPricing == Init /\ [][NextPricing]_vars

SpecKeyword == Init /\ [][NextKeyword]_vars

SpecReviews == Init /\ [][NextReviews]_vars

NextTools == CallTool \/ UpstreamResolves \/ UpstreamRejects

SpecTools == Init /\ [][NextTools]_vars

NextVersion == GetVersionHistory

SpecVersion == Init /\ [][NextVersion]_vars

NextPages == CallAnalyzeReviews \/ PageArrives \/ PageFails \/ LookupFails

SpecPages == Init /\ [][NextPages]_vars

\* every request to upstream is answered in the end
SpecPagesFair == SpecPages /\ WF_vars(PageArrives \/ PageFails \/ LookupFails)

NextDetails == AnalyzeKeywordIOS

SpecDetails == Init /\ [][NextDetails]_vars

NextDeveloper == GetDeveloperInfo

SpecDeveloper == Init /\ [][NextDeveloper]_vars

NextSearch == SearchApp

SpecSearch == Init /\ [][NextSearch]_vars

NextCalls == Call \/ Resolve \/ Resume \/ Expire

SpecCalls == Init /\ [][NextCalls]_vars

(***************************************************************************)
(* Properties                                                              *)
(***************************************************************************)
Zero == Quot(0, 1)

One == Quot(1, 1)

\* number of tokens of the text that belong to the lexicon
LexiconTokens(t, lexicon) == Cardinality({i \in DOMAIN t : toLowerCase(t[i]) \in lexicon})

\* C1: analyzeSentiment follows the five-level rule on the numbers p and n of
\* positive-lexicon and negative-lexicon tokens of the text: positive if p > 2n,
\* otherwise negative if n > 2p, otherwise somewhat positive if p > n, otherwise
\* somewhat negative if n > p, otherwise neutral (also for the empty text); so
\* (p, n) = (2, 1) is somewhat positive and (3, 1) is positive.
C1_FiveLevelRule ==
  sentiment # "none" =>
    LET p == LexiconTokens(text, positiveWords)
        n == LexiconTokens(text, negativeWords)
    IN  /\ (p > 2 * n) => sentiment = "positive"
        /\ (p <= 2 * n /\ n > 2 * p) => sentiment = "negative"
        /\ (p <= 2 * n /\ n <= 2 * p /\ p > n) => sentiment = "somewhat positive"
        /\ (p <= 2 * n /\ n <= 2 * p /\ n > p) => sentiment = "somewhat negative"
        /\ (p = n) => sentiment = "neutral"
        /\ (p = 2 /\ n = 1) => sentiment = "somewhat positive"
        /\ (p = 3 /\ n = 1) => sentiment = "positive"

C1_Witness ==
  /\ sentiment = "somewhat positive"
  /\ LexiconTokens(text, positiveWords) = 2
  /\ LexiconTokens(text, negativeWords) = 1

\* C2: determineMonetizationModel returns the label of the first matching
\* branch in the order paid, subscriptions, in-app purchases, ads, free, for
\* every combination of the four flags; a non-free app that offers in-app
\* purchases is "Paid app with in-app purchases" whatever the other flags are.
C2_FirstMatchingBranch ==
  pricingDetails.monetizationModel # "undefined" =>
    LET free == pricingDetails.basePrice.isFree
        iap == pricingDetails.inAppPurchases.offers
        subs == pricingDetails.subscriptions.offers
        ads == pricingDetails.adSupported = "true"
        model == pricingDetails.monetizationModel
    IN  /\ (~free /\ iap) => model = "Paid app with in-app purchases"
        /\ (~free /\ ~iap) => model = "Paid app (premium)"
        /\ (free /\ subs /\ ads) => model = "Freemium with ads and subscriptions"
        /\ (free /\ subs /\ ~ads) => model = "Freemium with subscriptions"
        /\ (free /\ ~subs /\ iap /\ ads) => model = "Freemium with ads and in-app purchases"
        /\ (free /\ ~subs /\ iap /\ ~ads) => model = "Freemium with in-app purchases"
        /\ (free /\ ~subs /\ ~iap /\ ads) => model = "Free with ads"
        /\ (free /\ ~subs /\ ~iap /\ ~ads) => model = "Completely free"

C2_Witness ==
  /\ pricingDetails.monetizationModel = "Paid app with in-app purchases"
  /\ ~pricingDetails.basePrice.isFree
  /\ pricingDetails.subscriptions.offers
  /\ pricingDetails.adSupported = "true"

\* C3: for an empty review batch the review analysis completes and reports
\* every sentimentBreakdown value as 0, every ratingDistribution bucket as 0
\* and the trend "Stable".
C3_EmptyBatch ==
  (platform # "none" /\ received = << >>) =>
    /\ analysis.phase = "done" =>
         /\ \A l \in DOMAIN analysis.sentimentBreakdown : NumEq(analysis.sentimentBreakdown[l], Zero)
         /\ \A b \in 1..5 : analysis.ratingDistribution[b] = 0
    /\ \A i \in DOMAIN reports :
         /\ reports[i].trend = "Stable"
         /\ \A b \in 1..5 : reports[i].ratingsDistribution[b] = 0

C3_Witness ==
  /\ platform # "none"
  /\ received = << >>
  /\ analysis.phase = "done"
  /\ reports # << >>

\* C4: for an empty review batch every average of the report built by
\* analyzeAndroidReviews / analyzeIOSReviews (sampleAverageScore,
\* recentSentiment.averageScore, engagement.averageThumbsUp) is the value 0.
C4_EmptyBatchAverages ==
  \A i \in DOMAIN reports :
    reports[i].reviewCount = 0 =>
      /\ NumEq(reports[i].sampleAverageScore, Zero)
      /\ NumEq(reports[i].recentSentiment.averageScore, Zero)
      /\ reports[i].platform = "android" => NumEq(reports[i].engagement.averageThumbsUp, Zero)

\* C5: a second run of the aggregator on the batch a first run was made on
\* yields a report identical to the first one.
C5_SecondRunIdentical ==
  Len(reports) >= 2 => reports[2] = reports[1]

\* the trend of the first min(20, size) reviews of a batch against the whole batch
TrendOfBatch(b) ==
  LET window == SubSeq(b, 1, IF Len(b) < 20 THEN Len(b) ELSE 20)
      windowAverage == Quot(Sum(Scores(window)), Len(window))
      batchAverage == Quot(Sum(Scores(b)), Len(b))
  IN  IF GT(windowAverage, batchAverage) THEN "Improving"
      ELSE IF LT(windowAverage, batchAverage) THEN "Declining"
      ELSE "Stable"

\* C6: the trend of a report is the one of the first min(20, batch size) reviews
\* of the batch in the order upstream delivered it: "Improving" if their average
\* score is greater than the average of the whole batch, "Declining" if it is
\* less, "Stable" otherwise.
C6_TrendOfReceivedOrder ==
  \A i \in DOMAIN reports : reports[i].trend = TrendOfBatch(received)

\* C7: after the aggregator returns, the batch it received holds the same
\* reviews in the same order as before the call.
C7_BatchUntouched ==
  reports # << >> => reviews = received

\* C8: the competition level is banded on the brand dominance d with strict
\* boundaries: "Low" iff d > 0.7, "Medium" iff 0.4 < d <= 0.7, "High" iff d <= 0.4.
C8_CompetitionBands ==
  keywordReport.phase = "done" =>
    LET d == keywordReport.brandDominance
        level == keywordReport.brandPresence.competitionLevel
    IN  /\ level = "Low - dominated by major brands" <=> GT(d, Quot(7, 10))
        /\ level = "Medium - mix of major brands and independents"
             <=> (GT(d, Quot(4, 10)) /\ LE(d, Quot(7, 10)))
        /\ level = "High - diverse set of developers" <=> LE(d, Quot(4, 10))

\* number of apps of the developer in the search result
AppsOf(dev) == Cardinality({i \in DOMAIN results : results[i].developer = dev})

\* developers of the search result
ResultDevelopers == {results[i].developer : i \in DOMAIN results}

\* C9: for every list of apps the search returns, the empty one included,
\* brandDominance is the number of apps of the two most frequent developers
\* divided by the number of apps, a number between 0 and 1; topBrands holds at
\* most two developers, and no developer outside it has more apps than one
\* inside it.
C9_BrandDominance ==
  keywordReport.phase = "done" =>
    LET d == keywordReport.brandDominance
        topBrands == keywordReport.brandPresence.topBrands
        inTop == {topBrands[i] : i \in DOMAIN topBrands}
    IN  /\ Len(topBrands) <= 2
        /\ inTop \subseteq ResultDevelopers
        /\ Cardinality(inTop) = Len(topBrands)
        /\ Len(topBrands) = (IF Cardinality(ResultDevelopers) < 2
                               THEN Cardinality(ResultDevelopers) ELSE 2)
        /\ \A out \in ResultDevelopers \ inTop : \A in \in inTop : AppsOf(out) <= AppsOf(in)
        /\ NumEq(d, Quot(Sum([i \in DOMAIN topBrands |-> AppsOf(topBrands[i])]), Len(results)))
        /\ LE(Zero, d) /\ LE(d, One)

\* number of occurrences of the term in the pool
CountInPool(pool, term) == Cardinality({i \in DOMAIN pool : pool[i] = term})

\* place of the first occurrence of the term in the pool
FirstSeen(pool, term) == CHOOSE i \in DOMAIN pool : pool[i] = term /\ \A j \in 1..(i - 1) : pool[j] # term

\* the table, enumerated, is the first n entries of the terms of the pool sorted
\* by descending count, equal counts in first-seen order
IsTopOfPool(table, pool, n) ==
  LET terms == {pool[i] : i \in DOMAIN pool}
      first == [t \in terms |-> FirstSeen(pool, t)]
      count == [t \in terms |-> CountInPool(pool, t)]
      listed == {table[i][1] : i \in DOMAIN table}
  IN  /\ Len(table) = (IF Cardinality(terms) < n THEN Cardinality(terms) ELSE n)
      /\ listed \subseteq terms
      /\ Cardinality(listed) = Len(table)
      /\ \A i \in DOMAIN table : table[i][2] = count[table[i][1]]
      /\ \A i, j \in DOMAIN table :
           i < j => \/ table[i][2] > table[j][2]
                    \/ table[i][2] = table[j][2] /\ first[table[i][1]] < first[table[j][1]]
      /\ \A t \in terms \ listed : \A i \in DOMAIN table :
           \/ count[t] < table[i][2]
           \/ count[t] = table[i][2] /\ first[t] > first[table[i][1]]

\* the unigrams followed by the bigrams of the texts of a batch
ReviewPool(b) ==
  LET joined == Flatten(ReviewTexts(b))
      words == Array([i \in DOMAIN joined |-> toLowerCase(joined[i])])
  IN  SelectSeq(words, ReviewWordKept) \o Bigrams(words)

\* the keywords of the reviews of a batch, as analyze_reviews of server.js pools them
ServerPool(b) == Flatten(Array([i \in DOMAIN b |-> extractKeywords(b[i].text)]))

\* the reviews of a batch that carry the version
OfVersion(b, v) == SelectSeq(b, LAMBDA r : r.version = v)

\* the terms of the texts of a batch, each text taken alone
TermsPerText(b) == UNION {{ReviewPool(<<b[i]>>)[j] : j \in DOMAIN ReviewPool(<<b[i]>>)} : i \in DOMAIN b}

\* C10: a keyword frequency table is the first N entries of the merged unigram
\* and bigram pool sorted by descending count, ties in first-seen order:
\* enumerating it gives non-increasing counts, equal counts in the order the
\* terms were first met, and exactly min(N, number of distinct terms) entries,
\* with N = 30 for extractReviewKeywords, 20 for the keywordFrequency of
\* analyze_reviews and 10 for the keywords of a version.
C10_KeywordTable ==
  /\ reports # << >> =>
       /\ IsTopOfPool(reports[1].commonKeywords, ReviewPool(received), 30)
       /\ \A k \in DOMAIN reports[1].versionFeedback :
            LET keywords == reports[1].versionFeedback[k][2].keywords
                terms == TermsPerText(OfVersion(received, reports[1].versionFeedback[k][1]))
            IN  /\ Len(keywords) = (IF Cardinality(terms) < 10 THEN Cardinality(terms) ELSE 10)
                /\ \A i, j \in DOMAIN keywords : i < j => keywords[i][2] >= keywords[j][2]
  /\ analysis.phase = "done" =>
       IsTopOfPool(analysis.keywordFrequency, ServerPool(received), 20)

\* the lowercase tokens of the texts of a batch that pass the filter of the ranker
FilteredStream(b) ==
  LET joined == Flatten(ReviewTexts(b))
  IN  SelectSeq(Array([i \in DOMAIN joined |-> toLowerCase(joined[i])]), ReviewWordKept)

\* the pairs of consecutive tokens of a token stream, each joined by a space
StreamBigrams(fs) == Array([i \in 1..(Len(fs) - 1) |-> fs[i] \o " " \o fs[i + 1]])

\* C11: every bigram of a keyword table is two consecutive tokens of the
\* filtered token stream joined by a space, counted once for each place where
\* the two tokens are consecutive in the filtered stream; a table that is not
\* full holds every such bigram.
C11_BigramsOfFilteredStream ==
  reports # << >> =>
    LET table == reports[1].commonKeywords
        fs == FilteredStream(received)
        unigrams == {fs[i] : i \in DOMAIN fs}
        pairs == StreamBigrams(fs)
    IN  /\ \A i \in DOMAIN table :
             table[i][1] \notin unigrams =>
               /\ \E j \in DOMAIN pairs : pairs[j] = table[i][1]
               /\ table[i][2] = CountInPool(pairs, table[i][1])
        /\ Len(table) < KeywordTopN =>
             \A j \in DOMAIN pairs :
               ObjHas(table, pairs[j]) /\ ObjGet(table, pairs[j]) = CountInPool(pairs, pairs[j])

\* the lowercase tokens of a text
LowerTokens(t) == Array([i \in DOMAIN t |-> toLowerCase(t[i])])

\* C12: the tokenizer keeps exactly the lowercase tokens of the text that have
\* at least 3 characters and are not in the stop-word set, in text order, both
\* in extractKeywords of server.js and in the unigram pass of
\* extractReviewKeywords (whose table, when it is not full, counts every kept
\* token once for each occurrence).
C12_TokensOfThreeCharacters ==
  /\ analysis.phase = "done" =>
       \A i \in DOMAIN received :
         analysis.keywords[i] =
           SelectSeq(LowerTokens(received[i].text),
                     LAMBDA w : Len(w) >= 3 /\ w \notin serverStopWords)
  /\ (reports # << >> /\ Len(reports[1].commonKeywords) < KeywordTopN) =>
       LET words == LowerTokens(Flatten(ReviewTexts(received)))
           kept == SelectSeq(words, LAMBDA w : Len(w) >= 3 /\ w \notin reviewStopWords)
       IN  \A j \in DOMAIN words :
             IF Len(words[j]) >= 3 /\ words[j] \notin reviewStopWords
               THEN /\ ObjHas(reports[1].commonKeywords, words[j])
                    /\ ObjGet(reports[1].commonKeywords, words[j]) = CountInPool(kept, words[j])
               ELSE ~ObjHas(reports[1].commonKeywords, words[j])

\* number of reviews of the batch whose score, rounded to the nearest integer, is b
RoundedTo(b, bucket) == Cardinality({i \in DOMAIN b : (b[i].score + 5) \div 10 = bucket})

\* C13: every review is counted in exactly one rating bucket, the one of its
\* score rounded to an integer in 1..5: the five counts sum to the number of
\* reviews analyzed and no other bucket is created, in the ratingDistribution of
\* analyze_reviews and in the ratingsDistribution of the two aggregators.
C13_RatingBuckets ==
  /\ analysis.phase = "done" =>
       /\ \A s \in 1..5 : analysis.ratingDistribution[s] = RoundedTo(received, s)
       /\ Sum([s \in 1..5 |-> analysis.ratingDistribution[s]]) = analysis.totalReviewsAnalyzed
  /\ \A i \in DOMAIN reports :
       /\ \A s \in 1..5 : reports[i].ratingsDistribution[s] = RoundedTo(received, s)
       /\ Sum([s \in 1..5 |-> reports[i].ratingsDistribution[s]]) = reports[i].reviewCount
       /\ DOMAIN reports[i].ratingsAdded = {}

\* the set of the five sentiment labels
LabelSet == {SentimentLabels[j] : j \in DOMAIN SentimentLabels}

\* v is num / den rounded to 2 decimals: a whole number h of hundredths at most
\* half a hundredth away from num / den
IsRoundedTo2(v, num, den) ==
  /\ v.d # 0
  /\ (100 * v.n) % v.d = 0
  /\ LET h == (100 * v.n) \div v.d
     IN  /\ 2 * (h * den - 100 * num) <= den
         /\ 2 * (100 * num - h * den) <= den

\* C14: analyze_reviews classifies each review into exactly one of the five
\* sentiment labels, so the five counts sum to totalReviewsAnalyzed, and
\* sentimentBreakdown[label] is count(label) / total * 100 rounded to 2
\* decimals, 0 for every label when the batch is empty.
C14_SentimentBreakdown ==
  analysis.phase = "done" =>
    LET total == analysis.totalReviewsAnalyzed
        labelled(l) == {i \in DOMAIN received : analyzeSentiment(received[i].text) = l}
    IN  /\ total = Len(received)
        /\ DOMAIN analysis.sentimentBreakdown = LabelSet
        /\ \A i \in DOMAIN received : analyzeSentiment(received[i].text) \in LabelSet
        /\ \A l \in LabelSet : analysis.sentimentCounts[l] = Cardinality(labelled(l))
        /\ Sum([j \in DOMAIN SentimentLabels |-> analysis.sentimentCounts[SentimentLabels[j]]]) = total
        /\ \A l \in LabelSet :
             IF total = 0 THEN NumEq(analysis.sentimentBreakdown[l], Zero)
             ELSE IsRoundedTo2(analysis.sentimentBreakdown[l], 100 * Cardinality(labelled(l)), total)

\* a batch of three reviews with three different labels: each share is 33.33
C14_Witness ==
  /\ analysis.phase = "done"
  /\ analysis.totalReviewsAnalyzed = 3
  /\ analysis.sentimentCounts["somewhat positive"] = 1
  /\ analysis.sentimentCounts["negative"] = 1
  /\ analysis.sentimentBreakdown["neutral"] = Quot(3333, 100)

\* the versions the reviews of a batch carry
VersionsOf(b) == {b[i].version : i \in DOMAIN b} \ {""}

\* C15: versionFeedback groups the reviews by their version: a review without
\* a version is in no group, the count of a group is the number of reviews
\* carrying the version, and its averageScore is the mean of their scores
\* rounded to 2 decimals (scores 5, 5, 4 give 4.67; scores 1, 2 give 1.5).
C15_VersionFeedback ==
  \A i \in DOMAIN reports :
    LET vf == reports[i].versionFeedback
    IN  /\ {vf[k][1] : k \in DOMAIN vf} = VersionsOf(received)
        /\ Cardinality(VersionsOf(received)) = Len(vf)
        /\ \A k \in DOMAIN vf :
             LET group == OfVersion(received, vf[k][1])
             IN  /\ vf[k][2].count = Len(group)
                 /\ IsRoundedTo2(vf[k][2].averageScore, Sum(Scores(group)), 10 * Len(group))
                 /\ Scores(group) = <<50, 50, 40>> => vf[k][2].averageScore = Quot(467, 100)
                 /\ Scores(group) = <<10, 20>> => NumEq(vf[k][2].averageScore, Quot(15, 10))

\* r is the exemplar of the reviews of the batch b that satisfy Qualifies: null
\* if there is none, otherwise the one with the highest helpfulness (absent is
\* 0), the earliest of the batch among those
IsExemplar(r, b, Qualifies(_)) ==
  LET candidates == {i \in DOMAIN b : Qualifies(b[i])}
  IN  IF candidates = {} THEN r = null
      ELSE \E i \in candidates :
             /\ r = b[i]
             /\ \A j \in candidates : ThumbsOr0(b[j]) <= ThumbsOr0(b[i])
             /\ \A j \in candidates : ThumbsOr0(b[j]) = ThumbsOr0(b[i]) => i <= j

\* C16: topPositiveReview is the review with the highest thumbs-up count among
\* the reviews with score >= 4, the earliest in batch order on ties, and null
\* if there is none; topNegativeReview is the same over the reviews with
\* score <= 2; for analyzeAndroidReviews and for analyzeIOSReviews.
C16_TopExemplars ==
  \A i \in DOMAIN reports :
    /\ IsExemplar(reports[i].topPositiveReview, received, LAMBDA r : r.score >= 40)
    /\ IsExemplar(reports[i].topNegativeReview, received, LAMBDA r : r.score <= 20)

\* the themes, in the order bugs, pricing, user experience, that the keywords
\* of a table call for: those with a keyword containing a word of the vocabulary
ThemesOf(table) ==
  LET keys == {table[k][1] : k \in DOMAIN table}
      Calls(vocabulary) == \E k \in keys : \E w \in DOMAIN vocabulary : includes(k, vocabulary[w])
  IN  SelectSeq(<<"Stability Issues", "Pricing Concerns", "User Experience">>,
                LAMBDA theme : CASE theme = "Stability Issues" -> Calls(bugKeywords)
                                 [] theme = "Pricing Concerns" -> Calls(pricingKeywords)
                                 [] OTHER -> Calls(uxKeywords))

C18_InstallVolumeBands ==
  volumeReport.phase = "done" =>
    LET T == volumeReport.totalInstallsEstimate
        level == volumeReport.competitionLevel
        difficulty == volumeReport.keywordDifficulty
    IN  /\ (T > 100000000) => (level = "Very High" /\ difficulty = 9)
        /\ (T <= 100000000 /\ T > 10000000) => (level = "High" /\ difficulty = 7)
        /\ (T <= 10000000 /\ T > 1000000) => (level = "Medium" /\ difficulty = 5)
        /\ (T <= 1000000 /\ T > 100000) => (level = "Low" /\ difficulty = 3)
        /\ (T <= 100000) => (level = "Very Low" /\ difficulty = 1)

\* the answer of the call in progress is out
Answered == response.kind # "none"

\* the steps of the call in which upstream rejected the fetch
RejectedFetches == {i \in DOMAIN fetches : fetches[i].outcome \in Failures}

\* the steps of the call that raised an exception inside the handler: the
\* rejection of a fetch, or the exception of the code that read its result
RaisingSteps == {i \in DOMAIN fetches : fetches[i].raised # ""}

\* C19: every failure raised inside a tool handler, the rejection of an upstream
\* fetch or an exception while its result is reshaped, is answered with a
\* response marked isError = true that carries the message of the failure and
\* echoes the identifying parameter of the request and its platform.
C19_FailuresBecomeErrorResponses ==
  Answered =>
    \A i \in RaisingSteps :
      /\ response.isError
      /\ response.error = fetches[i].raised
      /\ response.echo = [name |-> EchoName(request.tool), value |-> IdOf(request),
                          platform |-> request.platform]

\* C20: when an upstream fetch of a tool call was rejected, the answer is an
\* error response carrying the message of the rejection, never a report.
C20_UpstreamFailureSurfaced ==
  Answered =>
    \A i \in RejectedFetches :
      /\ response.kind = "error"
      /\ response.error = fetches[i].outcome

\* C30: analyzeSentiment returns a 'somewhat' label only for mixed texts, with
\* p and n the numbers of positive-lexicon and negative-lexicon words of the
\* text: 'somewhat positive' requires n >= 1 and n < p <= 2n (so p >= 2),
\* 'somewhat negative' requires p >= 1 and p < n <= 2p; a text with p >= 1 and
\* n = 0 is 'positive', and a text with n >= 1 and p = 0 is 'negative'.
C30_SomewhatOnlyForMixedTexts ==
  sentiment # "none" =>
    LET p == LexiconTokens(text, positiveWords)
        n == LexiconTokens(text, negativeWords)
    IN  /\ sentiment = "somewhat positive" => (n >= 1 /\ n < p /\ p <= 2 * n /\ p >= 2)
        /\ sentiment = "somewhat negative" => (p >= 1 /\ p < n /\ n <= 2 * p /\ n >= 2)
        /\ (p >= 1 /\ n = 0) => sentiment = "positive"
        /\ (n >= 1 /\ p = 0) => sentiment = "negative"

C30_Witness ==
  /\ sentiment = "somewhat negative"
  /\ LexiconTokens(text, positiveWords) = 1
  /\ LexiconTokens(text, negativeWords) = 2

\* the band of a brand dominance figure
BandOf(d) ==
  IF GT(d, Quot(7, 10)) THEN "Low - dominated by major brands"
  ELSE IF GT(d, Quot(4, 10)) THEN "Medium - mix of major brands and independents"
  ELSE "High - diverse set of developers"

\* C29 (as claimed): over a non-empty result list, the reported competitionLevel
\* is the band of the reported brandDominance figure, the value rounded to 2
\* decimals: "Low" iff it is > 0.7, "Medium" iff it is > 0.4 and <= 0.7, "High"
\* iff it is <= 0.4.
C29_BandOfReportedFigure ==
  (keywordReport.phase = "done" /\ results # << >>) =>
    keywordReport.brandPresence.competitionLevel = BandOf(keywordReport.brandPresence.brandDominance)

\* C29 (amended): over a non-empty result list, competitionLevel is the band of
\* the brand dominance before it is rounded, the reported figure is that value
\* rounded to 2 decimals, and the level differs from the band of the reported
\* figure exactly when the reported figure is 0.7 or 0.4 and the value was
\* rounded down to it.
C29_BandOfUnroundedDominance ==
  (keywordReport.phase = "done" /\ results # << >>) =>
    LET d == keywordReport.brandDominance
        shown == keywordReport.brandPresence.brandDominance
        level == keywordReport.brandPresence.competitionLevel
    IN  /\ level = BandOf(d)
        /\ IsRoundedTo2(shown, d.n, d.d)
        /\ level # BandOf(shown) <=>
             /\ NumEq(shown, Quot(7, 10)) \/ NumEq(shown, Quot(4, 10))
             /\ GT(d, shown)

C29_Witness ==
  /\ keywordReport.phase = "done"
  /\ Len(results) = 27
  /\ NumEq(keywordReport.brandPresence.brandDominance, Quot(7, 10))
  /\ keywordReport.brandPresence.competitionLevel = "Low - dominated by major brands"

\* C22: every successful search_app response echoes the request (query is the
\* term, platform the requested platform), its count is the length of results,
\* which holds one entry per app found, and every entry of results carries the
\* platform tag of the request.
C22_SearchResponseEchoesRequest ==
  (request.tool = "search_app" /\ response.kind = "report") =>
    LET body == response.body
    IN  /\ body.query = IdOf(request)
        /\ body.platform = request.platform
        /\ body.count = Len(body.results)
        /\ Len(body.results) = Len(fetches[1].data)
        /\ \A i \in DOMAIN body.results : body.results[i].platform = request.platform

C22_Witness ==
  /\ request.tool = "search_app"
  /\ request.platform = "ios"
  /\ response.kind = "report"
  /\ response.body.count = 2

\* C23: whenever the app lookup of get_version_history succeeds, the response
\* is a report whose currentVersion is not null and whose history is exactly
\* [currentVersion]; on Android platformCapabilities.fullHistoryAvailable is
\* false; and in every report metadata.totalVersions is the length of history.
C23_VersionHistoryOfOneEntry ==
  request.tool = "get_version_history" =>
    /\ fetches[1].outcome = "ok" =>
         /\ response.kind = "report"
         /\ response.body.currentVersion # noVersion
         /\ response.body.history = <<response.body.currentVersion>>
    /\ (response.kind = "report" /\ request.platform = "android") =>
         ~response.body.platformCapabilities.fullHistoryAvailable
    /\ response.kind = "report" =>
         response.body.metadata.totalVersions = Len(response.body.history)

\* the requests of a page of reviews the call issued, oldest first
PageRequests == SelectSeq(fetches, LAMBDA f : f.fetch = "reviews")

\* the reviews of the first k pages requested
RECURSIVE Collected(_)
Collected(k) == IF k = 0 THEN << >> ELSE Collected(k - 1) \o PageRequests[k].data

\* the call under way is an iOS call of analyze_reviews
PagedCall == request.tool = "analyze_reviews" /\ request.platform = "ios"

\* C24: one iOS analyze_reviews call issues at most 10 requests of a page of
\* reviews, for the pages 1, 2, ..., k in this order, and every request but the
\* first follows a page that arrived and was not empty, while fewer than num
\* reviews were collected; no request follows a failed lookup or page.
C24_PageRequestsInOrder ==
  PagedCall =>
    /\ Len(PageRequests) <= 10
    /\ \A k \in DOMAIN PageRequests :
         /\ PageRequests[k].page = k
         /\ Len(Collected(k - 1)) < request.num
         /\ k > 1 => (PageRequests[k - 1].outcome = "ok" /\ PageRequests[k - 1].data # << >>)
    /\ \A i \in DOMAIN fetches :
         (fetches[i].outcome \in Failures) => (i = Len(fetches) /\ stage = 0)

C24_Witness ==
  /\ PagedCall
  /\ Len(PageRequests) = 10
  /\ response.kind = "report"

\* C27: the iOS review-fetch loop of analyze_reviews terminates whatever
\* upstream answers, as long as it answers every request, and the batch handed
\* to the analysis is the first min(num, collected) reviews of the pages
\* fetched, in page order, so it never holds more than num reviews.
C27_LoopEndsWithCutBatch ==
  /\ [](PagedCall ~> response.kind # "none")
  /\ []((PagedCall /\ response.kind = "report") =>
          LET all == Collected(Len(PageRequests))
              n == IF request.num < Len(all) THEN request.num ELSE Len(all)
          IN  /\ reviews = SubSeq(all, 1, n)
              /\ Len(reviews) <= request.num
              /\ response.body.totalReviews = n)

C27_Witness ==
  /\ PagedCall
  /\ response.kind = "report"
  /\ Len(PageRequests) >= 2
  /\ Len(reviews) = request.num
  /\ Len(received) > request.num

\* the lookups of the apps of the search result, in the order of the result
AppLookups == SubSeq(fetches, 2, Len(fetches))

\* C25: in analyze_top_keywords on iOS, when the full-detail lookup of an app of
\* the search result fails, the analysis goes on: the tool answers with a
\* report that covers every app of the search result, with the search record
\* in the place of each app whose lookup failed.
C25_FailedLookupKeepsSearchRecord ==
  (request.tool = "analyze_top_keywords" /\ request.platform = "ios"
     /\ response.kind # "none") =>
    /\ response.kind = "report"
    /\ response.body.totalApps = Len(results)
    /\ \A i \in DOMAIN results :
         response.body.topApps[i] =
           NormalizeIOS(IF AppLookups[i].outcome = "ok" THEN DetailRecord(results[i].appId)
                        ELSE results[i])

\* the lookups of all the apps of the portfolio, in portfolio order
DetailLookups == SelectSeq(fetches, LAMBDA f : f.fetch = "appDetails")

\* the apps of the portfolio whose lookup succeeded, in portfolio order
FoundApps ==
  LET found == SelectSeq(DetailLookups, LAMBDA f : f.outcome = "ok")
  IN  [i \in DOMAIN found |-> found[i].data]

\* C28: in get_developer_info with includeApps, when the portfolio and its first
\* app were fetched, failed lookups among those of all the apps do not fail the
\* tool: the response is a report, apps lists exactly the apps whose lookup
\* succeeded, in portfolio order, totalRatings and (on Android) totalInstalls
\* are summed over those apps and averageRating is their score total divided
\* by their number, and apps is not longer than totalApps.
C28_FailedLookupsAreLeftOut ==
  (request.tool = "get_developer_info" /\ request.includeApps /\ DetailLookups # << >>) =>
    /\ response.kind = "report"
    /\ response.body.apps =
         [i \in DOMAIN FoundApps |-> PortfolioEntry(request.platform, FoundApps[i])]
    /\ response.body.metrics.totalRatings =
         Sum([i \in DOMAIN FoundApps |-> FigureOr0(FoundApps[i].ratings)])
    /\ request.platform = "android" =>
         response.body.metrics.totalInstalls =
           Sum([i \in DOMAIN FoundApps |-> FigureOr0(FoundApps[i].minInstalls)])
    /\ response.body.metrics.averageRating =
         Quot(Sum([i \in DOMAIN FoundApps |-> FigureOr0(FoundApps[i].score)]), Len(FoundApps))
    /\ Len(response.body.apps) <= response.body.totalApps
    /\ response.body.totalApps = Len(DetailLookups)

C28_Witness ==
  /\ request.tool = "get_developer_info"
  /\ response.kind = "report"
  /\ Len(DetailLookups) = 3
  /\ DetailLookups[2].outcome \in Failures
  /\ Len(response.body.apps) = 2

\* the top-10 table of the ranker run once over the texts of the reviews of
\* version v of a batch
RankerTableOf(b, v) == TopEntries(extractReviewKeywords(ReviewTexts(OfVersion(b, v))), VersionTopN)

\* C26: for every version v, versionFeedback[v].keywords equals the top-10
\* table that the ranker (extractReviewKeywords truncated to 10) produces when
\* it is run once over the texts of exactly the reviews of version v.
C26_VersionKeywordsOfOneRun ==
  \A i \in DOMAIN reports :
    \A k \in DOMAIN reports[i].versionFeedback :
      reports[i].versionFeedback[k][2].keywords
        = RankerTableOf(received, reports[i].versionFeedback[k][1])

\* the heap with every fetched object as upstream delivered it
Pristine(h) == [r \in DOMAIN h |-> [h[r] EXCEPT !.data = h[r].delivered]]

\* the call as it was before its last step
BeforeLast(c) ==
  IF c.tool = "analyze_reviews" /\ c.variant = "part_000"
    THEN [c EXCEPT !.pc = "app", !.report = << >>]
    ELSE [c EXCEPT !.pc = FirstFetch(c.tool, c.platform, c.appId)[1], !.report = << >>]

\* C21: with several tool requests in flight, their handlers interleaving at
\* their awaits and possibly receiving the same cached object from a memoized
\* fetcher, the report of each request is the report the request produces when
\* it runs alone on the same upstream data.
C21_ReportAsWhenRunAlone ==
  \A i \in DOMAIN calls :
    calls[i].pc = "done" =>
      calls[i].report = Resumed(BeforeLast(calls[i]), Pristine(heap), cache).call.report

\* a request has been answered from an object of the memoized fetcher that
\* another request, still in flight, awaits too
C21_Witness ==
  /\ Len(calls) >= 2
  /\ calls[1].pc = "done" /\ calls[1].report # << >>
  /\ calls[2].pc # "done"
  /\ calls[1].tool = "analyze_reviews"
  /\ calls[2].awaited = calls[1].awaited
  /\ Len(heap[calls[1].awaited].data) >= 2
====
